---- MODULE Spec2Model ----
(***************************************************************************)
(* A model of the Nyon engine: the ECS tick (InputSystem, PhysicsSystem,   *)
(* CollisionSystem, RenderSystem run by SystemManager), the SAT and CCD    *)
(* collision routines of CollisionPhysics, and the EntityManager and       *)
(* ComponentStore containers.                                              *)
(*                                                                         *)
(* Arithmetic.  The program computes in 32-bit floats; the model computes  *)
(* in exact fixed point.  A length is an integer count of 1/S pixel, where *)
(* S is the scale handed to the geometric operators (PosScale in the tick, *)
(* TDen in the CCD routine).  A unit axis is held multiplied by AxisDen,   *)
(* so polygons are limited to edges whose normals are exact over AxisDen   *)
(* (axis-parallel edges and 3-4-5 slopes).  Projections and overlaps are   *)
(* therefore counts of 1/(AxisDen*S) pixel.                                 *)
(***************************************************************************)
EXTENDS Integers, Sequences, FiniteSets, TLC

VARIABLES
    \* ---- the ECS application and its fixed tick
    appPc,          \* "start" before OnStart, "idle" between fixed updates, "update"
    m_Systems,      \* SystemManager::m_Systems, by name
    sysIdx,         \* the position of SystemManager::Update in m_Systems
    colPc,          \* the position of CollisionSystem::Update
    loopI, loopJ,   \* the two loop positions of ProcessCollisions
    pending,        \* the pair whose OnCollision callbacks are being called
    tick,           \* fixed updates completed
    transform,      \* TransformComponent::position of each entity
    body,           \* PhysicsBodyComponent of each entity
    collider,       \* ColliderComponent polygon of each entity
    hasComp,        \* the entities in each container's map
    entityList,     \* each container's entityList
    \* ---- what happened in the current tick (history, read by the properties)
    stageLog,       \* the stages run, in order
    contact,        \* grounded contributions counted for each entity
    prevContact,    \* whether the tick before counted one
    streak,         \* consecutive ticks, up to the last finished, with a contribution
    resolved,       \* times each ordered pair was resolved
    notified,       \* times OnCollision(a, b) was called
    lastContact,    \* the last narrow-phase contact and what it did to groundedFrames
    \* ---- a call of CollisionPhysics::ContinuousCollisionCheck
    ccdIn,          \* the arguments of the call
    ccdSt,          \* the position of the call and the locals of its search
    ccdOut,         \* its CCDResult, or NoResult before the call
    \* ---- EntityManager, and the threads of Threading_EntityManager
    m_NextID,       \* EntityManager::m_NextID
    m_EntityStates, \* EntityManager::m_EntityStates
    m_ActiveEntities, \* EntityManager::m_ActiveEntities
    m_FreeIDs,      \* EntityManager::m_FreeIDs
    thr,            \* each thread's position, locals and the IDs it was returned
    successCount,   \* the test's atomic counter
    aborted,        \* an assert has ended the process
    emLast,         \* the last call on the EntityManager and what it returned
    storeLast,      \* the last call on the ComponentStore
    \* ---- a call of CheckPolygonCollision, and one of ResolveCollision
    satIn,          \* the two polygons and their positions
    satOut,         \* the CollisionResult, or NoResult before the call
    resIn,          \* the two bodies and the CollisionResult
    resOut,         \* the two bodies after the call, or NoResult before it
    \* ---- a SystemManager and the systems added to it
    sysCalls,       \* the calls each system has received, in order
    smState,        \* whether the manager lives, and the calls made on it
    \* ---- the game loop of Application::Run
    m_Accumulator,  \* Application::m_Accumulator
    framePc,        \* "poll" between frames, "fixed" in the fixed-update loop
    frameUpdates,   \* fixed updates run in the current frame
    frameLog,       \* the frame before: its frame time, updates and accumulator
    m_Running,      \* Application::m_Running
    closedUpdates,  \* OnFixedUpdate calls begun after Close() was called
    \* ---- a call of a utility function on its own
    unitIn,         \* the function called and its arguments
    unitOut,        \* what it returned, or NoResult before the call
    \* ---- Utils::InputManager
    s_Window,       \* whether InputManager::s_Window is set (not nullptr)
    s_CurrentKeys, s_PreviousKeys,                  \* the key tables
    s_CurrentMouseButtons, s_PreviousMouseButtons,  \* the mouse button tables
    \* ---- InputSystem::Update walking the behaviour entities
    behaviorLoop    \* the range-for over the entity list and what it visited

ecsVars == <<appPc, m_Systems, sysIdx, colPc, loopI, loopJ, pending, tick,
             transform, body, collider, hasComp, entityList>>
histVars == <<stageLog, contact, prevContact, streak, resolved, notified, lastContact>>
ccdVars == <<ccdIn, ccdSt, ccdOut>>

emVars == <<m_NextID, m_EntityStates, m_ActiveEntities, m_FreeIDs>>
thrVars == <<emVars, thr, successCount, aborted>>

callVars == <<satIn, satOut, resIn, resOut>>
smVars == <<sysCalls, smState>>
loopVars == <<m_Accumulator, framePc, frameUpdates, frameLog, m_Running, closedUpdates>>
fnVars == <<unitIn, unitOut>>
inputVars == <<s_Window, s_CurrentKeys, s_PreviousKeys,
               s_CurrentMouseButtons, s_PreviousMouseButtons>>
utilVars == <<fnVars, inputVars, behaviorLoop>>
unitVars == <<emLast, storeLast, callVars, smVars, loopVars, utilVars>>

vars == <<ecsVars, histVars, ccdVars, thrVars, unitVars>>

NoResult == [none |-> TRUE]

(***************************************************************************)
(* Vector2                                                                 *)
(***************************************************************************)
VAdd(a, b) == <<a[1] + b[1], a[2] + b[2]>>
VSub(a, b) == <<a[1] - b[1], a[2] - b[2]>>
VScale(a, k) == <<a[1] * k, a[2] * k>>
VNeg(a) == <<-a[1], -a[2]>>

Abs(x) == IF x < 0 THEN -x ELSE x
Min2(a, b) == IF a < b THEN a ELSE b
Max2(a, b) == IF a > b THEN a ELSE b
SetMin(s) == CHOOSE x \in s : \A y \in s : x <= y
SetMax(s) == CHOOSE x \in s : \A y \in s : x >= y

\* Division rounding toward zero, the rounding of a fixed-point product.
Quot(a, b) == IF a >= 0 THEN a \div b ELSE -((-a) \div b)

\* Largest r with r*r <= n.
RECURSIVE ISqrtIn(_, _, _)
ISqrtIn(n, lo, hi) ==
    IF lo >= hi THEN lo
    ELSE LET mid == (lo + hi + 1) \div 2
         IN  IF mid * mid <= n THEN ISqrtIn(n, mid, hi) ELSE ISqrtIn(n, lo, mid - 1)
ISqrt(n) == ISqrtIn(n, 0, Min2(n, 46340))

\* The denominator of a stored unit axis: the length of a 3-4-5 slope.
AxisDen == ISqrt(3 * 3 + 4 * 4)

\* std::numeric_limits<float>::max(), as the overlap no axis has lowered.
FLT_MAX == 2000000000

(***************************************************************************)
(* CollisionPhysics helpers                                                *)
(***************************************************************************)
GetEdgeNormal(edge) == <<-edge[2], edge[1]>>

DotProduct(a, b) == a[1] * b[1] + a[2] * b[2]

\* polygon in pixels, pos in 1/S pixel, axis over AxisDen.
ProjectPolygonOntoAxis(polygon, pos, axis, S) ==
    LET proj == {DotProduct(VAdd(VScale(polygon[i], S), pos), axis) :
                    i \in 1..Len(polygon)}
    IN  <<SetMin(proj), SetMax(proj)>>

\* epsilon = 0.0001 pixel, in units of 1/(AxisDen*S) pixel: AxisDen*S/10000.
\* For integers a, b:  a < b - eps  <=>  b - a > eps  <=>  b - a >= floor(eps) + 1.
EpsFloor(S) == (AxisDen * S) \div 10000

CheckOverlap(min1, max1, min2, max2, S) ==
    ~ (min2 - max1 >= EpsFloor(S) + 1 \/ min1 - max2 >= EpsFloor(S) + 1)

CalculateIntervalOverlap(min1, max1, min2, max2) ==
    Min2(max1, max2) - Max2(min1, min2)

\* pos and size in the same unit.
CheckAABBCollision(pos1, size1, pos2, size2) ==
    LET collisionX == pos1[1] < pos2[1] + size2[1] /\ pos1[1] + size1[1] > pos2[1]
        collisionY == pos1[2] < pos2[2] + size2[2] /\ pos1[2] + size1[2] > pos2[2]
    IN  collisionX /\ collisionY

\* <<outMin, outMax>> in 1/S pixel.
CalculateAABB(polygon, pos, S) ==
    IF Len(polygon) = 0 THEN <<pos, pos>>
    ELSE LET xs == {polygon[i][1] * S + pos[1] : i \in 1..Len(polygon)}
             ys == {polygon[i][2] * S + pos[2] : i \in 1..Len(polygon)}
         IN  <<<<SetMin(xs), SetMin(ys)>>, <<SetMax(xs), SetMax(ys)>>>>

CalculateSweptAABB(polygon, startPos, endPos, S) ==
    LET b1 == CalculateAABB(polygon, startPos, S)
        b2 == CalculateAABB(polygon, endPos, S)
    IN  <<<<Min2(b1[1][1], b2[1][1]), Min2(b1[1][2], b2[1][2])>>,
          <<Max2(b1[2][1], b2[2][1]), Max2(b1[2][2], b2[2][2])>>>>

\* Sum of the vertices times the other polygon's size: the centre, scaled by
\* Len(polygon) * k, so that two centres are compared without dividing.
CalculatePolygonCenter(polygon, pos, S, k) ==
    LET RECURSIVE Sum(_)
        Sum(i) == IF i = 0 THEN <<0, 0>>
                  ELSE VAdd(Sum(i - 1), VAdd(VScale(polygon[i], S), pos))
    IN  VScale(Sum(Len(polygon)), k)

CollisionResult(coll, axis, amount) ==
    [collided |-> coll, overlapAxis |-> axis, overlapAmount |-> amount]

NotCollided == CollisionResult(FALSE, <<0, 0>>, 0)

\* The normalised normal of edge i of the polygon (over AxisDen), and whether
\* the edge is long enough to give one.
EdgeAxis(poly, i) ==
    LET nextIdx == (i % Len(poly)) + 1
        edge == VSub(poly[nextIdx], poly[i])
        normal == GetEdgeNormal(edge)
        length == ISqrt(normal[1] * normal[1] + normal[2] * normal[2])
    IN  [ok |-> length > 0,
         axis |-> IF length > 0
                  THEN <<Quot(normal[1] * AxisDen, length),
                         Quot(normal[2] * AxisDen, length)>>
                  ELSE <<0, 0>>]

\* parallelEpsilon = 0.999 on the product of two unit axes.
IsUniqueAxis(normal, axes) ==
    \A k \in 1..Len(axes) :
        Abs(DotProduct(normal, axes[k])) * 1000 <= 999 * AxisDen * AxisDen

RECURSIVE CollectAxes(_, _, _)
CollectAxes(poly, i, axes) ==
    IF i > Len(poly) THEN axes
    ELSE LET ea == EdgeAxis(poly, i)
         IN  IF ea.ok /\ IsUniqueAxis(ea.axis, axes)
             THEN CollectAxes(poly, i + 1, Append(axes, ea.axis))
             ELSE CollectAxes(poly, i + 1, axes)

\* epsilon_overlap = 1e-4 pixel: overlap < eps, for an integer overlap.
NegligibleOverlap(overlap, S) == overlap <= (AxisDen * S - 1) \div 10000

\* The loop over the axes: <<separated, minOverlap, minAxis>>.
RECURSIVE AxisLoop(_, _, _, _, _, _, _, _, _)
AxisLoop(poly1, pos1, poly2, pos2, S, axes, k, minOverlap, minAxis) ==
    IF k > Len(axes) THEN <<FALSE, minOverlap, minAxis>>
    ELSE LET proj1 == ProjectPolygonOntoAxis(poly1, pos1, axes[k], S)
             proj2 == ProjectPolygonOntoAxis(poly2, pos2, axes[k], S)
             overlap == CalculateIntervalOverlap(proj1[1], proj1[2], proj2[1], proj2[2])
         IN  IF ~CheckOverlap(proj1[1], proj1[2], proj2[1], proj2[2], S)
             THEN <<TRUE, minOverlap, minAxis>>
             ELSE IF NegligibleOverlap(overlap, S)
             THEN AxisLoop(poly1, pos1, poly2, pos2, S, axes, k + 1, minOverlap, minAxis)
             ELSE IF overlap < minOverlap
             THEN AxisLoop(poly1, pos1, poly2, pos2, S, axes, k + 1, overlap, axes[k])
             ELSE AxisLoop(poly1, pos1, poly2, pos2, S, axes, k + 1, minOverlap, minAxis)

\* The orientation of the MTV: from the centre of poly1 toward that of poly2.
OrientAxis(directionVec, minAxis) ==
    IF DotProduct(directionVec, minAxis) < 0 THEN VNeg(minAxis) ELSE minAxis

\* Discrete SAT.  Polygons in pixels, positions in 1/S pixel; the result's
\* overlapAxis is over AxisDen and its overlapAmount counts 1/(AxisDen*S) pixel.
CheckPolygonCollision(poly1, pos1, poly2, pos2, S) ==
    IF Len(poly1) = 0 \/ Len(poly2) = 0 THEN NotCollided
    ELSE LET b1 == CalculateAABB(poly1, pos1, S)
             b2 == CalculateAABB(poly2, pos2, S)
         IN
         IF Len(poly1) >= 2 /\ Len(poly2) >= 2
            /\ ~CheckAABBCollision(b1[1], VSub(b1[2], b1[1]), b2[1], VSub(b2[2], b2[1]))
         THEN NotCollided
         ELSE LET axes == CollectAxes(poly2, 1, CollectAxes(poly1, 1, <<>>))
                  r == AxisLoop(poly1, pos1, poly2, pos2, S, axes, 1, FLT_MAX, <<0, 0>>)
                  center1 == CalculatePolygonCenter(poly1, pos1, S, Len(poly2))
                  center2 == CalculatePolygonCenter(poly2, pos2, S, Len(poly1))
                  directionVec == VSub(center2, center1)
              IN  IF r[1] THEN NotCollided
                  ELSE CollisionResult(TRUE, OrientAxis(directionVec, r[3]), r[2])

(***************************************************************************)
(* Continuous collision detection.  A time is a numerator over TDen; the   *)
(* bisection works on numerators over TBis, which is exact because the     *)
(* loop stops once the bracket is narrower than 0.001, at depth 10.        *)
(***************************************************************************)
TBis == 2 ^ 10
TDen == TBis * 25

\* safetyMargin = 0.02, over TDen.
SafetyMargin == TDen \div 50

\* The argument's default, int maxIterations = 16.
DefaultMaxIterations == 16

CCDResult(c, toi, pos, col) ==
    [collided |-> c, timeOfImpact |-> toi, impactPosition |-> pos, collision |-> col]

\* startPos + (endPos - startPos) * t, in 1/TDen pixel, for t over TDen.
Lerp(startPos, endPos, t) == VAdd(VScale(startPos, TDen), VScale(VSub(endPos, startPos), t))

\* tMax - tMin < epsilon, on numerators over TBis.
BracketClosed(tMin, tMax) == (tMax - tMin) * 1000 < TBis

\* The locals of the binary search; tMin, tMax and toi over TBis.
SearchStart ==
    [pc |-> "loop", iteration |-> 0, tMin |-> 0, tMax |-> TBis, toi |-> TBis,
     impactCollision |-> NotCollided]
NoSearch ==
    [pc |-> "entry", iteration |-> 0, tMin |-> 0, tMax |-> TBis, toi |-> TBis,
     impactCollision |-> NotCollided]

\* The early exits: the result returned before the search, or NoResult.
EarlyExit(in) ==
    LET startCollision == CheckPolygonCollision(in.poly1, VScale(in.startPos1, TDen),
                                                in.poly2, VScale(in.startPos2, TDen), TDen)
        endCollision == CheckPolygonCollision(in.poly1, VScale(in.endPos1, TDen),
                                              in.poly2, VScale(in.endPos2, TDen), TDen)
        swept1 == CalculateSweptAABB(in.poly1, in.startPos1, in.endPos1, 1)
        swept2 == CalculateSweptAABB(in.poly2, in.startPos2, in.endPos2, 1)
    IN  IF startCollision.collided
        THEN CCDResult(TRUE, 0, VScale(in.startPos1, TDen), startCollision)
        ELSE IF ~endCollision.collided
                /\ ~CheckAABBCollision(swept1[1], VSub(swept1[2], swept1[1]),
                                       swept2[1], VSub(swept2[2], swept2[1]))
        THEN CCDResult(FALSE, TDen, VScale(in.endPos1, TDen), NotCollided)
        ELSE NoResult

\* One iteration of the loop on the locals st.
BisectStep(in, st) ==
    LET tMid == (st.tMin + st.tMax) \div 2
        pos1 == Lerp(in.startPos1, in.endPos1, tMid * (TDen \div TBis))
        pos2 == Lerp(in.startPos2, in.endPos2, tMid * (TDen \div TBis))
        collision == CheckPolygonCollision(in.poly1, pos1, in.poly2, pos2, TDen)
    IN  IF collision.collided
        THEN [st EXCEPT !.tMax = tMid, !.toi = tMid, !.impactCollision = collision,
                        !.iteration = @ + 1,
                        !.pc = IF BracketClosed(st.tMin, tMid) THEN "exit" ELSE "loop"]
        ELSE [st EXCEPT !.tMin = tMid, !.iteration = @ + 1,
                        !.pc = IF BracketClosed(tMid, st.tMax) THEN "exit" ELSE "loop"]

\* toi = std::max(0.0f, toi - safetyMargin), over TDen.
BackedOffTimeNoMargin(toi) == toi
BackedOffTimeUnclamped(toi) == toi - SafetyMargin
BackedOffTime(toi) == Max2(0, toi - SafetyMargin)

\* The result returned after the loop.
SearchResult(in, st) ==
    LET found == st.toi * (TDen \div TBis)
        backOff == st.impactCollision.collided /\ found > 0
        toi == IF backOff THEN BackedOffTime(found) ELSE found
        impactPos == IF st.impactCollision.collided
                     THEN Lerp(in.startPos1, in.endPos1, toi)
                     ELSE VScale(in.endPos1, TDen)
    IN  CCDResult(st.impactCollision.collided, toi, impactPos, st.impactCollision)

(***************************************************************************)
(* Units of the tick.  A position counts 1/PosScale pixel; a velocity      *)
(* counts 1/60 pixel per second, so that one fixed step of 1/60 s adds the *)
(* acceleration (pixels/s^2) to the velocity and the velocity to the       *)
(* position without rounding.  friction and drag are held in tenths, so    *)
(* friction * deltaTime is friction / 600.                                 *)
(***************************************************************************)
PosScale == 60 * 60
\* 1 / FIXED_TIMESTEP, the fixed steps per second.
VelScale == 60
RateDen == VelScale * 10

\* GravityPhysics::Gravity, pixels/s^2.
Gravity == 980

\* The velocity of a sub-step of 1/60 s before the grounded clamp: the
\* acceleration is added to the velocity, gravity is added to the
\* acceleration, and the acceleration is added to the velocity again.
AccelerateBody(bd) ==
    LET v1 == VAdd(bd.velocity, bd.acceleration)
        acc == <<bd.acceleration[1], bd.acceleration[2] + Gravity>>
    IN  VAdd(v1, acc)

\* One sub-step of deltaTime = steps/60 s, steps in {0, 1}.
InternalUpdateBody(bd, steps, isGrounded) ==
    IF steps <= 0 THEN bd
    ELSE IF bd.isStatic
    THEN [bd EXCEPT !.velocity = <<0, 0>>, !.acceleration = <<0, 0>>]
    ELSE LET v2 == AccelerateBody(bd)
             v3 == IF isGrounded /\ v2[2] > 0 THEN <<v2[1], 0>> ELSE v2
             v4 == IF isGrounded
                   THEN <<Quot(v3[1] * (RateDen - Min2(bd.friction, RateDen)), RateDen),
                          v3[2]>>
                   ELSE v3
             v5 == <<Quot(v4[1] * (RateDen - Min2(bd.drag, RateDen)), RateDen),
                     Quot(v4[2] * (RateDen - Min2(bd.drag, RateDen)), RateDen)>>
             pos == VAdd(bd.position, v5)
             maxVel == bd.maxSpeed * VelScale
             v6 == <<Max2(-maxVel, Min2(maxVel, v5[1])), Max2(-maxVel, Min2(maxVel, v5[2]))>>
         IN  [bd EXCEPT !.position = pos, !.velocity = v6, !.acceleration = <<0, 0>>]

\* deltaTime = steps/60 s: whole sub-steps of maxStep = 1/60 s while more than
\* one is left, then the remainder.
RECURSIVE UpdateBody(_, _, _)
UpdateBody(bd, steps, isGrounded) ==
    IF bd.isStatic THEN bd
    ELSE IF steps > 1
    THEN UpdateBody(InternalUpdateBody(bd, 1, isGrounded), steps - 1, isGrounded)
    ELSE InternalUpdateBody(bd, steps, isGrounded)

\* penetrationSlop = 0.01 pixel, in the unit of overlapAmount.
PenetrationSlop == (AxisDen * PosScale) \div 100

\* Not a number, the float 0 * infinity.  Velocities are integers, so a count
\* that no velocity of the model reaches stands for it.
NaN == -2147483647

\* CollisionPhysics::ResolveCollision on two Physics::Body: <<body1, body2>>.
\* Masses are integers >= 0, and a static body's mass is not read.  For a
\* dynamic body of mass 0 the float 1.0f / mass is infinity: j, divided by
\* the sum of the inverse masses, is then 0, the impulse is (0, 0), and the
\* body's own velocity change impulse * (1.0f / mass) is 0 * infinity.
ResolveCollision(body1, body2, result) ==
    IF ~result.collided THEN <<body1, body2>>
    ELSE IF body1.isStatic /\ body2.isStatic THEN <<body1, body2>>
    ELSE LET mass1 == IF body1.isStatic THEN 0 ELSE body1.mass
             mass2 == IF body2.isStatic THEN 0 ELSE body2.mass
             totalMass == mass1 + mass2
         IN
         IF totalMass <= 0 THEN <<body1, body2>>
         ELSE LET cp == Max2(result.overlapAmount - PenetrationSlop, 0)
                  axis == result.overlapAxis
                  den == AxisDen * AxisDen * totalMass
                  p1 == IF body1.isStatic THEN body1.position
                        ELSE <<body1.position[1] - Quot(axis[1] * cp * mass2, den),
                               body1.position[2] - Quot(axis[2] * cp * mass2, den)>>
                  p2 == IF body2.isStatic THEN body2.position
                        ELSE <<body2.position[1] + Quot(axis[1] * cp * mass1, den),
                               body2.position[2] + Quot(axis[2] * cp * mass1, den)>>
                  vn == DotProduct(VSub(body2.velocity, body1.velocity), axis)
                  \* j / mass1 and j / mass2, with j = -vn / (1/m1 + 1/m2) and
                  \* the inverse mass of a static body taken as 0
                  share1 == IF body2.isStatic THEN <<1, 1>> ELSE <<body2.mass, totalMass>>
                  share2 == IF body1.isStatic THEN <<1, 1>> ELSE <<body1.mass, totalMass>>
                  v1 == IF body1.isStatic THEN body1.velocity
                        ELSE IF body1.mass = 0 THEN <<NaN, NaN>>
                        ELSE <<body1.velocity[1]
                                 + Quot(axis[1] * vn * share1[1], AxisDen * AxisDen * share1[2]),
                               body1.velocity[2]
                                 + Quot(axis[2] * vn * share1[1], AxisDen * AxisDen * share1[2])>>
                  v2 == IF body2.isStatic THEN body2.velocity
                        ELSE IF body2.mass = 0 THEN <<NaN, NaN>>
                        ELSE <<body2.velocity[1]
                                 - Quot(axis[1] * vn * share2[1], AxisDen * AxisDen * share2[2]),
                               body2.velocity[2]
                                 - Quot(axis[2] * vn * share2[1], AxisDen * AxisDen * share2[2])>>
              IN  IF vn > 0
                  THEN <<[body1 EXCEPT !.position = p1], [body2 EXCEPT !.position = p2]>>
                  ELSE <<[body1 EXCEPT !.position = p1, !.velocity = v1],
                         [body2 EXCEPT !.position = p2, !.velocity = v2]>>

(***************************************************************************)
(* Components                                                              *)
(***************************************************************************)
Entities == 0..2
CompTypes == {"Transform", "PhysicsBody", "Collider", "Behavior"}
Pairs == {p \in Entities \X Entities : p[1] # p[2]}

Square(s) == <<<<0, 0>>, <<s, 0>>, <<s, s>>, <<0, s>>>>
Rect(w, h) == <<<<0, 0>>, <<w, 0>>, <<w, h>>, <<0, h>>>>

\* PhysicsBodyComponent::GROUNDED_THRESHOLD
GROUNDED_THRESHOLD == 2

\* PhysicsBodyComponent(float m, bool stat), the other fields at their defaults
\* (friction 0.1, drag 0, maxSpeed 1000).
PhysicsBodyComponent(m, stat) ==
    [velocity |-> <<0, 0>>, acceleration |-> <<0, 0>>, mass |-> m, friction |-> 1,
     drag |-> 0, maxSpeed |-> 1000, isStatic |-> stat, isGrounded |-> FALSE,
     groundedFrames |-> 0]

IsStablyGrounded(b) == b.groundedFrames >= GROUNDED_THRESHOLD

UpdateGroundedState(b, currentlyGrounded) ==
    LET counted == [b EXCEPT !.groundedFrames =
                        IF currentlyGrounded THEN b.groundedFrames + 1 ELSE 0]
    IN  [counted EXCEPT !.isGrounded = IsStablyGrounded(counted)]

HasComponent(type, e) == e \in hasComp[type]
GetEntitiesWithComponent(type) == entityList[type]

\* Utils::Physics::Body() with the fields the systems copy into it.
PhysicsBodyOf(pos, b) ==
    [position |-> pos, velocity |-> b.velocity, acceleration |-> b.acceleration,
     mass |-> b.mass, friction |-> b.friction, drag |-> b.drag,
     maxSpeed |-> b.maxSpeed, isStatic |-> b.isStatic]

(***************************************************************************)
(* The scene and the initial state                                         *)
(***************************************************************************)
\* Fixed updates explored.
MaxTicks == 3

\* Screen, from CollisionSystem::ApplyBoundaryConstraints (pixels).
SCREEN_WIDTH == 1280
SCREEN_HEIGHT == 720
PLAYER_SIZE == 32

\* Entity 0 is a dynamic player, entity 1 a block (static or dynamic), entity 2
\* a static ledge below the bottom boundary, away from the other two.  The
\* velocity, acceleration and mass fields of the static bodies hold leftovers.
\* Positions in pixels.
PlayerStarts == {<<100, 300>>, <<100, 370>>, <<100, 680>>, <<100, 688>>}
BlockStarts == {<<50, 400>>, <<110, 310>>, <<110, 314>>, <<120, 680>>}
BlockShapes == {Square(32), Rect(200, 32), Rect(32, 2)}
BlockMasses == {1, 3}
LedgeStart == <<600, 700>>
LedgeShape == Rect(200, 32)
LeftoverVelocity == <<0, -2 * VelScale>>
LeftoverAcceleration == <<10, 10>>

\* What the player's behaviour Update callback does in a tick.
Commands == {"none", "jump"}
JumpVelocity == <<0, -400 * VelScale>>

NoPair == <<>>
NoContact == [none |-> TRUE]

InitECS ==
    /\ appPc = "start"
    /\ m_Systems = <<>>
    /\ sysIdx = 0
    /\ colPc = "reset"
    /\ loopI = 0
    /\ loopJ = 0
    /\ pending = NoPair
    /\ tick = 0
    /\ \E pp \in PlayerStarts, bp \in BlockStarts, bs \in BlockShapes,
          bm \in BlockMasses, bstat \in BOOLEAN :
        /\ transform = [e \in Entities |->
                          IF e = 0 THEN VScale(pp, PosScale)
                          ELSE IF e = 1 THEN VScale(bp, PosScale)
                          ELSE VScale(LedgeStart, PosScale)]
        /\ body = [e \in Entities |->
                          IF e = 0 THEN PhysicsBodyComponent(1, FALSE)
                          ELSE IF e = 1
                          THEN [PhysicsBodyComponent(bm, bstat) EXCEPT
                                   !.velocity = IF bstat THEN LeftoverVelocity ELSE <<0, 0>>,
                                   !.acceleration = IF bstat THEN LeftoverAcceleration
                                                    ELSE <<0, 0>>]
                          ELSE [PhysicsBodyComponent(0, TRUE) EXCEPT
                                   !.velocity = LeftoverVelocity,
                                   !.acceleration = LeftoverAcceleration]]
        /\ collider = [e \in Entities |->
                          IF e = 0 THEN Square(PLAYER_SIZE)
                          ELSE IF e = 1 THEN bs
                          ELSE LedgeShape]
    /\ hasComp = [t \in CompTypes |-> IF t = "Behavior" THEN {0, 1} ELSE Entities]
    /\ entityList = [t \in CompTypes |-> IF t = "Behavior" THEN <<0, 1>> ELSE <<0, 1, 2>>]

InitHist ==
    /\ stageLog = <<>>
    /\ contact = [e \in Entities |-> 0]
    /\ prevContact = [e \in Entities |-> FALSE]
    /\ streak = [e \in Entities |-> 0]
    /\ resolved = [p \in Pairs |-> 0]
    /\ notified = [p \in Pairs |-> 0]
    /\ lastContact = NoContact

IdleCCD == ccdIn = NoResult /\ ccdSt = NoSearch /\ ccdOut = NoResult

\* No thread runs; the entity manager has created the scene's entities.
ThreadCount == 2
EntitiesPerThread == 2
Threads == 1..ThreadCount
IdleThread == [pc |-> "off", id |-> 0, n |-> 0, left |-> 0, created |-> <<>>]

IdleThreads ==
    /\ m_NextID = Cardinality(Entities)
    /\ m_EntityStates = [i \in 1..Cardinality(Entities) |-> TRUE]
    /\ m_ActiveEntities = [i \in 1..Cardinality(Entities) |-> i - 1]
    /\ m_FreeIDs = <<>>
    /\ thr = [t \in Threads |-> IdleThread]
    /\ successCount = 0
    /\ aborted = FALSE

\* No call is made on its own on the EntityManager, on CollisionPhysics or on
\* a SystemManager, and no game loop is simulated.
NoCall == [op |-> "none"]
NoManager == [alive |-> FALSE, added |-> 0, updates |-> 0, shutdowns |-> 0]
NoFrame == [none |-> TRUE]

IdleEntityCalls == emLast = NoCall /\ storeLast = NoCall
IdleSAT == satIn = NoResult /\ satOut = NoResult
IdleResolve == resIn = NoResult /\ resOut = NoResult
IdleSystems == sysCalls = <<>> /\ smState = NoManager
IdleLoop ==
    /\ m_Accumulator = 0 /\ framePc = "off" /\ frameUpdates = 0 /\ frameLog = NoFrame
    /\ m_Running = TRUE /\ closedUpdates = 0

\* No utility function is called on its own, the InputManager has no window
\* and its tables are zero-initialised, and no behaviour loop runs.
Keys == 0..1
Buttons == 0..0
NoLoop == [pc |-> "off"]
IdleFn == unitIn = NoCall /\ unitOut = NoResult
IdleInput ==
    /\ s_Window = FALSE
    /\ s_CurrentKeys = [k \in Keys |-> FALSE]
    /\ s_PreviousKeys = [k \in Keys |-> FALSE]
    /\ s_CurrentMouseButtons = [b \in Buttons |-> FALSE]
    /\ s_PreviousMouseButtons = [b \in Buttons |-> FALSE]
IdleUtils == IdleFn /\ IdleInput /\ behaviorLoop = NoLoop

IdleUnits ==
    IdleEntityCalls /\ IdleSAT /\ IdleResolve /\ IdleSystems /\ IdleLoop /\ IdleUtils

Init == InitECS /\ InitHist /\ IdleCCD /\ IdleThreads /\ IdleUnits

(***************************************************************************)
(* ECSApplication and SystemManager                                        *)
(***************************************************************************)
\* The systems in the order OnStart adds them.
SystemsCollisionBeforePhysics == <<"Input", "Collision", "Physics", "Render">>
SystemsAddedByOnStart == <<"Input", "Physics", "Collision", "Render">>

\* ECSApplication::OnStart: AddSystem four times (each Initialize, push_back).
OnStart ==
    /\ appPc = "start"
    /\ m_Systems' = SystemsAddedByOnStart
    /\ appPc' = "idle"
    /\ UNCHANGED <<sysIdx, colPc, loopI, loopJ, pending, tick, transform, body,
                   collider, hasComp, entityList, histVars, ccdVars, thrVars, unitVars>>

\* The fixed-update loop of Application::Run enters OnFixedUpdate and with it
\* SystemManager::Update.
BeginFixedUpdate ==
    /\ appPc = "idle"
    /\ tick < MaxTicks
    /\ appPc' = "update"
    /\ sysIdx' = 1
    /\ stageLog' = <<>>
    /\ prevContact' = [e \in Entities |-> contact[e] > 0]
    /\ contact' = [e \in Entities |-> 0]
    /\ resolved' = [p \in Pairs |-> 0]
    /\ notified' = [p \in Pairs |-> 0]
    /\ lastContact' = NoContact
    /\ UNCHANGED <<m_Systems, colPc, loopI, loopJ, pending, tick, transform, body,
                   collider, hasComp, entityList, streak, ccdVars, thrVars, unitVars>>

\* The system SystemManager::Update is about to call.
CurrentSystem ==
    IF appPc = "update" /\ sysIdx <= Len(m_Systems) THEN m_Systems[sysIdx] ELSE "none"

\* SystemManager::Update has called every system; OnFixedUpdate returns.
EndFixedUpdate ==
    /\ appPc = "update"
    /\ sysIdx > Len(m_Systems)
    /\ appPc' = "idle"
    /\ tick' = tick + 1
    /\ UNCHANGED <<m_Systems, sysIdx, colPc, loopI, loopJ, pending, transform, body,
                   collider, hasComp, entityList, histVars, ccdVars, thrVars, unitVars>>

(***************************************************************************)
(* InputSystem, PhysicsSystem, RenderSystem                                *)
(***************************************************************************)
\* The Update callback of entity e's behaviour; only the player's has one.
BehaviorUpdate(bo, e, cmd) ==
    IF e = 0 /\ cmd = "jump" THEN [bo EXCEPT ![e].velocity = JumpVelocity] ELSE bo

InputSystemUpdate ==
    /\ CurrentSystem = "Input"
    /\ \E cmd \in Commands :
        LET behaviorEntities == GetEntitiesWithComponent("Behavior")
            RECURSIVE Run(_, _)
            Run(k, bo) == IF k > Len(behaviorEntities) THEN bo
                          ELSE Run(k + 1, BehaviorUpdate(bo, behaviorEntities[k], cmd))
        IN  body' = Run(1, body)
    /\ sysIdx' = sysIdx + 1
    /\ stageLog' = Append(stageLog, "input")
    /\ UNCHANGED <<appPc, m_Systems, colPc, loopI, loopJ, pending, tick, transform,
                   collider, hasComp, entityList, contact, prevContact, streak,
                   resolved, notified, lastContact, ccdVars, thrVars, unitVars>>

\* PhysicsSystem::Update for one entity: <<position, PhysicsBodyComponent>>.
PhysicsStep(pos, b, hasTransform) ==
    IF b.isStatic THEN <<pos, b>>
    ELSE LET physicsBody == PhysicsBodyOf(IF hasTransform THEN pos ELSE <<0, 0>>, b)
             updated == UpdateBody(physicsBody, 1, b.isGrounded)
         IN  <<IF hasTransform THEN updated.position ELSE pos,
               [b EXCEPT !.velocity = updated.velocity, !.acceleration = <<0, 0>>]>>

PhysicsSystemUpdate ==
    /\ CurrentSystem = "Physics"
    /\ LET stepped == [e \in Entities |->
                         IF HasComponent("PhysicsBody", e)
                         THEN PhysicsStep(transform[e], body[e], HasComponent("Transform", e))
                         ELSE <<transform[e], body[e]>>]
       IN  /\ transform' = [e \in Entities |-> stepped[e][1]]
           /\ body' = [e \in Entities |-> stepped[e][2]]
    /\ sysIdx' = sysIdx + 1
    /\ stageLog' = Append(stageLog, "integration")
    /\ UNCHANGED <<appPc, m_Systems, colPc, loopI, loopJ, pending, tick,
                   collider, hasComp, entityList, contact, prevContact, streak,
                   resolved, notified, lastContact, ccdVars, thrVars, unitVars>>

\* RenderSystem::Update draws and changes nothing of the simulation.
RenderSystemUpdate ==
    /\ CurrentSystem = "Render"
    /\ sysIdx' = sysIdx + 1
    /\ stageLog' = Append(stageLog, "render")
    /\ UNCHANGED <<appPc, m_Systems, colPc, loopI, loopJ, pending, tick, transform, body,
                   collider, hasComp, entityList, contact, prevContact, streak,
                   resolved, notified, lastContact, ccdVars, thrVars, unitVars>>

(***************************************************************************)
(* CollisionSystem                                                         *)
(***************************************************************************)
\* ResetGroundedCounters
ResetCounter(b) == IF ~b.isStatic THEN [b EXCEPT !.groundedFrames = 0] ELSE b

ResetGroundedCounters ==
    /\ CurrentSystem = "Collision"
    /\ colPc = "reset"
    /\ body' = [e \in Entities |->
                  IF HasComponent("PhysicsBody", e) THEN ResetCounter(body[e]) ELSE body[e]]
    /\ colPc' = "pairs"
    /\ loopI' = 1
    /\ loopJ' = 1
    /\ UNCHANGED <<appPc, m_Systems, sysIdx, pending, tick, transform,
                   collider, hasComp, entityList, histVars, ccdVars, thrVars, unitVars>>

\* The ECS wrapper ResolveCollision(entityA, entityB, collision):
\* <<positions, bodies>> after it.
TempBody(pos, b) ==
    [position |-> pos, velocity |-> b.velocity, mass |-> b.mass, isStatic |-> b.isStatic]

SystemResolveCollision(tr, bo, entityA, entityB, collision) ==
    LET r == ResolveCollision(TempBody(tr[entityA], bo[entityA]),
                              TempBody(tr[entityB], bo[entityB]), collision)
        tempBodyA == r[1]
        tempBodyB == r[2]
        boA == IF ~bo[entityA].isStatic
               THEN [bo EXCEPT ![entityA].velocity = tempBodyA.velocity] ELSE bo
        trA == IF ~bo[entityA].isStatic
               THEN [tr EXCEPT ![entityA] = tempBodyA.position] ELSE tr
        boB == IF ~bo[entityB].isStatic
               THEN [boA EXCEPT ![entityB].velocity = tempBodyB.velocity] ELSE boA
        trB == IF ~bo[entityB].isStatic
               THEN [trA EXCEPT ![entityB] = tempBodyB.position] ELSE trA
    IN  <<trB, boB>>

\* CheckGroundedContribution: the two tests, and the counter after them.
OtherIsBelow(tr, entity, otherEntity) == tr[otherEntity][2] > tr[entity][2] + 10 * PosScale

\* collision.overlapAxis.y < GROUND_THRESHOLD = -0.3, the axis being over AxisDen.
NormalPushesUpward(collision) == collision.overlapAxis[2] * 10 < -3 * AxisDen

CheckGroundedContribution(tr, bo, entity, otherEntity, collision) ==
    IF OtherIsBelow(tr, entity, otherEntity) /\ NormalPushesUpward(collision)
    THEN [bo EXCEPT ![entity].groundedFrames = bo[entity].groundedFrames + 1]
    ELSE bo

\* The loop indices after the iteration (i, j) of ProcessCollisions.
NextIteration(i, j) ==
    IF j < Len(GetEntitiesWithComponent("Collider")) THEN <<i, j + 1, "pairs">>
    ELSE IF i < Len(GetEntitiesWithComponent("PhysicsBody")) THEN <<i + 1, 1, "pairs">>
    ELSE <<i, j, "boundary">>

\* One iteration of the inner loop of ProcessCollisions, up to the callbacks.
ProcessPair ==
    /\ CurrentSystem = "Collision"
    /\ colPc = "pairs"
    /\ LET entity == GetEntitiesWithComponent("PhysicsBody")[loopI]
           otherEntity == GetEntitiesWithComponent("Collider")[loopJ]
           outerOk == /\ HasComponent("Transform", entity)
                      /\ HasComponent("Collider", entity)
                      /\ ~body[entity].isStatic
           innerOk == /\ otherEntity # entity
                      /\ HasComponent("Transform", otherEntity)
                      /\ HasComponent("PhysicsBody", otherEntity)
           boxA == CalculateAABB(collider[entity], transform[entity], PosScale)
           boxB == CalculateAABB(collider[otherEntity], transform[otherEntity], PosScale)
           broad == CheckAABBCollision(boxA[1], VSub(boxA[2], boxA[1]),
                                       boxB[1], VSub(boxB[2], boxB[1]))
           collisionResult == CheckPolygonCollision(collider[entity], transform[entity],
                                                    collider[otherEntity],
                                                    transform[otherEntity], PosScale)
           next == NextIteration(loopI, loopJ)
       IN  IF outerOk /\ innerOk /\ broad /\ collisionResult.collided
           THEN LET r == SystemResolveCollision(transform, body, entity, otherEntity,
                                                collisionResult)
                    bo == CheckGroundedContribution(r[1], r[2], entity, otherEntity,
                                                    collisionResult)
                IN  /\ transform' = r[1]
                    /\ body' = bo
                    /\ pending' = <<entity, otherEntity>>
                    /\ colPc' = "notify"
                    /\ resolved' = [resolved EXCEPT ![<<entity, otherEntity>>] = @ + 1]
                    /\ contact' = [contact EXCEPT ![entity] =
                                      @ + (bo[entity].groundedFrames - body[entity].groundedFrames)]
                    /\ lastContact' = [entity |-> entity, other |-> otherEntity,
                                       beneath |-> OtherIsBelow(r[1], entity, otherEntity),
                                       axis |-> collisionResult.overlapAxis,
                                       before |-> body[entity].groundedFrames,
                                       after |-> bo[entity].groundedFrames]
                    /\ UNCHANGED <<loopI, loopJ>>
           ELSE /\ loopI' = next[1]
                /\ loopJ' = next[2]
                /\ colPc' = next[3]
                /\ UNCHANGED <<transform, body, pending, resolved, contact, lastContact>>
    /\ UNCHANGED <<appPc, m_Systems, sysIdx, tick, collider, hasComp, entityList,
                   stageLog, prevContact, streak, notified, ccdVars, thrVars, unitVars>>

\* NotifyCollision(entity, other) then NotifyCollision(other, entity): the
\* OnCollision callbacks of the behaviours, which here change nothing.
Notified(n, entityA, entityB) ==
    IF HasComponent("Behavior", entityA) THEN [n EXCEPT ![<<entityA, entityB>>] = @ + 1] ELSE n

NotifyCollisions ==
    /\ CurrentSystem = "Collision"
    /\ colPc = "notify"
    /\ notified' = Notified(Notified(notified, pending[1], pending[2]), pending[2], pending[1])
    /\ pending' = NoPair
    /\ LET next == NextIteration(loopI, loopJ)
       IN  /\ loopI' = next[1]
           /\ loopJ' = next[2]
           /\ colPc' = next[3]
    /\ UNCHANGED <<appPc, m_Systems, sysIdx, tick, transform, body, collider, hasComp,
                   entityList, stageLog, contact, prevContact, streak, resolved,
                   lastContact, ccdVars, thrVars, unitVars>>

\* ApplyBoundaryConstraints for one entity: <<position, body, touched bottom>>.
BoundaryAlsoStatic(b) == TRUE
BoundaryApplies(b) == ~b.isStatic

ConstrainToScreen(pos, b) ==
    LET right == (SCREEN_WIDTH - PLAYER_SIZE) * PosScale
        bottom == (SCREEN_HEIGHT - PLAYER_SIZE) * PosScale
        \* left
        p1 == IF pos[1] < 0 THEN <<0, pos[2]>> ELSE pos
        v1 == IF pos[1] < 0 THEN <<Max2(0, b.velocity[1]), b.velocity[2]>> ELSE b.velocity
        \* right
        p2 == IF p1[1] > right THEN <<right, p1[2]>> ELSE p1
        v2 == IF p1[1] > right THEN <<Min2(0, v1[1]), v1[2]>> ELSE v1
        \* bottom
        onGround == p2[2] > bottom
        p3 == IF onGround THEN <<p2[1], bottom>> ELSE p2
        v3 == IF onGround THEN <<v2[1], Min2(0, v2[2])>> ELSE v2
        g3 == IF onGround THEN b.groundedFrames + 1 ELSE b.groundedFrames
        \* top
        p4 == IF p3[2] < 0 THEN <<p3[1], 0>> ELSE p3
        v4 == IF p3[2] < 0 THEN <<v3[1], Quot(Abs(v3[2]), 2)>> ELSE v3
    IN  <<p4, [b EXCEPT !.velocity = v4, !.groundedFrames = g3], onGround>>

ApplyBoundaryConstraints ==
    /\ CurrentSystem = "Collision"
    /\ colPc = "boundary"
    /\ LET constrained == [e \in Entities |->
                             IF /\ HasComponent("PhysicsBody", e)
                                /\ HasComponent("Transform", e)
                                /\ BoundaryApplies(body[e])
                             THEN ConstrainToScreen(transform[e], body[e])
                             ELSE <<transform[e], body[e], FALSE>>]
       IN  /\ transform' = [e \in Entities |-> constrained[e][1]]
           /\ body' = [e \in Entities |-> constrained[e][2]]
           /\ contact' = [e \in Entities |->
                            contact[e] + IF constrained[e][3] THEN 1 ELSE 0]
    /\ colPc' = "final"
    /\ UNCHANGED <<appPc, m_Systems, sysIdx, loopI, loopJ, pending, tick, collider,
                   hasComp, entityList, stageLog, prevContact, streak, resolved,
                   notified, lastContact, ccdVars, thrVars, unitVars>>

\* UpdateFinalGroundedStates; CollisionSystem::Update returns.
FinalGroundedState(b) ==
    IF ~b.isStatic THEN UpdateGroundedState(b, b.groundedFrames > 0) ELSE b

UpdateFinalGroundedStates ==
    /\ CurrentSystem = "Collision"
    /\ colPc = "final"
    /\ body' = [e \in Entities |->
                  IF HasComponent("PhysicsBody", e) THEN FinalGroundedState(body[e]) ELSE body[e]]
    /\ colPc' = "reset"
    /\ sysIdx' = sysIdx + 1
    /\ stageLog' = stageLog \o <<"collision", "grounded">>
    /\ streak' = [e \in Entities |-> IF contact[e] > 0 THEN streak[e] + 1 ELSE 0]
    /\ UNCHANGED <<appPc, m_Systems, loopI, loopJ, pending, tick, transform, collider,
                   hasComp, entityList, contact, prevContact, resolved, notified,
                   lastContact, ccdVars, thrVars, unitVars>>

Next ==
    \/ OnStart
    \/ BeginFixedUpdate
    \/ InputSystemUpdate
    \/ PhysicsSystemUpdate
    \/ ResetGroundedCounters
    \/ ProcessPair
    \/ NotifyCollisions
    \/ ApplyBoundaryConstraints
    \/ UpdateFinalGroundedStates
    \/ RenderSystemUpdate
    \/ EndFixedUpdate

Spec == Init /\ [][Next]_vars

(***************************************************************************)
(* Properties of the grounded state (C1 - C4)                              *)
(***************************************************************************)
\* A fixed update has just completed.
TickDone == appPc = "idle" /\ tick > 0

Dynamic == {e \in Entities : HasComponent("PhysicsBody", e) /\ ~body[e].isStatic}

\* C1: at the end of a tick a dynamic body is reported grounded only if a
\* grounded contact was detected for it in this tick and in the tick before.
C1_GroundedOnlyAfterTwoTicks ==
    TickDone => \A e \in Dynamic :
                    body[e].isGrounded => contact[e] > 0 /\ prevContact[e]

\* C2: at the end of a tick groundedFrames of a dynamic body is the number of
\* consecutive ticks, ending with this one, that had a supporting contact.
C2_FramesCountConsecutiveTicks ==
    TickDone => \A e \in Dynamic : body[e].groundedFrames = streak[e]

\* The contact of C3: the other entity lies beneath and the normal is steep
\* (|y| above 0.3, the axis being over AxisDen).
SteepNormal(axis) == Abs(axis[2]) * 10 > 3 * AxisDen
QualifyingContact(c) == c.beneath /\ SteepNormal(c.axis)

\* C3: a contact with a collider beneath the entity and a steep normal adds
\* one to the entity's groundedFrames; any other contact leaves it unchanged.
C3_QualifyingContactCounts ==
    lastContact # NoContact =>
        IF QualifyingContact(lastContact)
        THEN lastContact.after = lastContact.before + 1
        ELSE lastContact.after = lastContact.before

\* The states in which a body is read: behaviours' Update (InputSystem about
\* to run), PhysicsSystem about to run, OnCollision callbacks about to run,
\* and the end of CollisionSystem::Update.
BodyReadable ==
    \/ CurrentSystem \in {"Input", "Physics", "Render"}
    \/ CurrentSystem = "Collision" /\ colPc = "notify"
    \/ TickDone

\* C4: wherever a dynamic body can be read, isGrounded holds exactly when
\* groundedFrames >= GROUNDED_THRESHOLD.
C4_GroundedIffThreshold ==
    BodyReadable => \A e \in Dynamic :
                        body[e].isGrounded <=> body[e].groundedFrames >= GROUNDED_THRESHOLD

(***************************************************************************)
(* Static bodies, stage order, pair processing (C5 - C7)                   *)
(***************************************************************************)
\* C5: no step of a tick changes the position of a body with isStatic set.
C5_StaticNeverMoves ==
    [][\A e \in Entities : body[e].isStatic => transform'[e] = transform[e]]_vars

\* A static body with leftover velocity took part in a resolved collision and
\* ticks have completed.
C5_Witness ==
    /\ tick >= 2
    /\ \E p \in Pairs : /\ resolved[p] > 0
                        /\ body[p[2]].isStatic
                        /\ body[p[2]].velocity # <<0, 0>>

StageOrder == <<"input", "integration", "collision", "grounded", "render">>

IsPrefix(a, b) == Len(a) <= Len(b) /\ SubSeq(b, 1, Len(a)) = a

C7_PairProcessedOnce ==
    \A p \in Pairs :
        /\ resolved[p] + resolved[<<p[2], p[1]>>] <= 1
        /\ notified[p] <= 1
        /\ (resolved[p] > 0 /\ colPc # "notify" /\ HasComponent("Behavior", p[1]))
               => notified[p] = 1

\* PhysicsSystem::Update has run in the current tick.
IntegratedThisTick == \E i \in 1..Len(stageLog) : stageLog[i] = "integration"

StaticBodies == {e \in Entities : HasComponent("PhysicsBody", e) /\ body[e].isStatic}

\* C14: once PhysicsSystem::Update has run, every static body has velocity
\* and acceleration (0, 0), and GravityPhysics::UpdateBody with a deltaTime of
\* one fixed step returns a static body with velocity and acceleration (0, 0).
C14_StaticIntegratedToRest ==
    IntegratedThisTick =>
        \A e \in StaticBodies :
            LET updated == UpdateBody(PhysicsBodyOf(transform[e], body[e]), 1,
                                      body[e].isGrounded)
            IN  /\ body[e].velocity = <<0, 0>>
                /\ body[e].acceleration = <<0, 0>>
                /\ updated.velocity = <<0, 0>>
                /\ updated.acceleration = <<0, 0>>

\* The dynamic body e lies on the bottom boundary with no velocity.
RestingOnBottom(e) ==
    /\ e \in Dynamic
    /\ HasComponent("Transform", e)
    /\ transform[e][2] = (SCREEN_HEIGHT - PLAYER_SIZE) * PosScale
    /\ body[e].velocity = <<0, 0>>
    /\ body[e].acceleration = <<0, 0>>

\* C27: a dynamic body at rest on the bottom boundary stays grounded: once
\* isGrounded is true, no step of a tick that leaves the body at rest on the
\* boundary turns it to false.  (isGrounded is written only where the tick's
\* final grounded state is set, so before that step it is the value the tick
\* before ended with.)
C27_RestingBodyStaysGrounded ==
    [][\A e \in Entities :
          RestingOnBottom(e) /\ body[e].isGrounded /\ RestingOnBottom(e)'
              => body'[e].isGrounded]_vars

(***************************************************************************)
(* ContinuousCollisionCheck on bounded arguments                           *)
(***************************************************************************)
\* No application runs: the managers and the stores are empty.
ParkedECS ==
    /\ appPc = "off"
    /\ m_Systems = <<>>
    /\ sysIdx = 0
    /\ colPc = "reset"
    /\ loopI = 0
    /\ loopJ = 0
    /\ pending = NoPair
    /\ tick = 0
    /\ transform = [e \in Entities |-> <<0, 0>>]
    /\ body = [e \in Entities |-> PhysicsBodyComponent(1, FALSE)]
    /\ collider = [e \in Entities |-> <<>>]
    /\ hasComp = [t \in CompTypes |-> {}]
    /\ entityList = [t \in CompTypes |-> <<>>]

ParkedManager ==
    /\ m_NextID = 0
    /\ m_EntityStates = <<>>
    /\ m_ActiveEntities = <<>>
    /\ m_FreeIDs = <<>>
    /\ thr = [t \in Threads |-> IdleThread]
    /\ successCount = 0
    /\ aborted = FALSE

\* A right triangle whose hypotenuse has a 3-4-5 slope.
Ramp == <<<<0, 0>>, <<40, 0>>, <<40, 30>>>>

\* The arguments tried, in pixels: a 32 x 32 mover leaving the origin, and an
\* obstacle that stands still or moves toward it.
MoverEnds == {<<30, 0>>, <<100, 0>>, <<200, 0>>, <<96, 72>>}
ObstacleShapes == {Square(32), Rect(2, 32), Ramp}
ObstacleStarts == {<<16, 16>>, <<33, 0>>, <<60, 0>>, <<100, 0>>, <<150, 40>>}
ObstacleTravels == {<<0, 0>>, <<-50, 0>>}
\* Iterations short of the safety margin's width, one more, and the default.
MarginIterations == CHOOSE d \in 1..20 : 2 ^ d > 50 /\ 2 ^ (d - 1) <= 50
IterationCounts == {0, 1, MarginIterations - 1, MarginIterations, DefaultMaxIterations}

CCDArguments ==
    {[poly1 |-> Square(32), startPos1 |-> <<0, 0>>, endPos1 |-> e1,
      poly2 |-> p2, startPos2 |-> s2, endPos2 |-> VAdd(s2, d2), maxIterations |-> mi] :
        e1 \in MoverEnds, p2 \in ObstacleShapes, s2 \in ObstacleStarts,
        d2 \in ObstacleTravels, mi \in IterationCounts}

InitCCD ==
    /\ ccdIn \in CCDArguments
    /\ ccdSt = NoSearch
    /\ ccdOut = NoResult
    /\ ParkedECS
    /\ InitHist
    /\ ParkedManager
    /\ IdleUnits

\* The call, up to the loop: an early exit returns.
CCDEnter ==
    /\ ccdIn # NoResult
    /\ ccdSt.pc = "entry"
    /\ LET early == EarlyExit(ccdIn)
       IN  IF early # NoResult
           THEN ccdOut' = early /\ ccdSt' = [ccdSt EXCEPT !.pc = "done"]
           ELSE ccdOut' = ccdOut /\ ccdSt' = SearchStart
    /\ UNCHANGED <<ccdIn, ecsVars, histVars, thrVars, unitVars>>

\* One iteration of the binary search.
CCDIterate ==
    /\ ccdSt.pc = "loop"
    /\ ccdSt.iteration < ccdIn.maxIterations
    /\ ccdSt' = BisectStep(ccdIn, ccdSt)
    /\ UNCHANGED <<ccdIn, ccdOut, ecsVars, histVars, thrVars, unitVars>>

\* The loop has ended: back off and return.
CCDReturn ==
    /\ \/ ccdSt.pc = "exit"
       \/ ccdSt.pc = "loop" /\ ccdSt.iteration >= ccdIn.maxIterations
    /\ ccdOut' = SearchResult(ccdIn, ccdSt)
    /\ ccdSt' = [ccdSt EXCEPT !.pc = "done"]
    /\ UNCHANGED <<ccdIn, ecsVars, histVars, thrVars, unitVars>>

NextCCD ==
    \/ CCDEnter
    \/ CCDIterate
    \/ CCDReturn

SpecCCD == InitCCD /\ [][NextCCD]_vars

\* Times sampled along the motion, k / TimeSamples for k = 0 .. TimeSamples.
TimeSamples == 32
SampleTime(k) == (k * TDen) \div TimeSamples

\* The SAT detector on the two polygons at time t (over TDen) of the motion.
OverlapAt(in, t) ==
    CheckPolygonCollision(in.poly1, Lerp(in.startPos1, in.endPos1, t),
                          in.poly2, Lerp(in.startPos2, in.endPos2, t), TDen).collided

CCDReturned == ccdOut # NoResult

\* C9: if the polygons overlap at some time of the motion, the call returns
\* collided with a timeOfImpact no later than that time.
C9_NoTunnelling ==
    CCDReturned =>
        \A k \in 0..TimeSamples :
            OverlapAt(ccdIn, SampleTime(k)) =>
                ccdOut.collided /\ ccdOut.timeOfImpact <= SampleTime(k)

\* The polygons at the returned impactPosition and at the other polygon's
\* position for the returned timeOfImpact.
OverlapAtImpact ==
    CheckPolygonCollision(ccdIn.poly1, ccdOut.impactPosition, ccdIn.poly2,
                          Lerp(ccdIn.startPos2, ccdIn.endPos2, ccdOut.timeOfImpact),
                          TDen).collided

C26_TimeOfImpactInUnitRange ==
    CCDReturned =>
        /\ 0 <= ccdOut.timeOfImpact
        /\ ccdOut.timeOfImpact <= TDen
        /\ ~ccdOut.collided => ccdOut.timeOfImpact = TDen

\* The search found an impact earlier than the safety margin: backing off
\* would pass below 0.
C26_Witness ==
    /\ CCDReturned
    /\ ccdOut.collided
    /\ ccdSt.iteration > 0
    /\ ccdSt.toi * (TDen \div TBis) < SafetyMargin
    /\ ccdOut.timeOfImpact = 0

(***************************************************************************)
(* EntityManager and ComponentStore called from several threads, as in the *)
(* test Threading_EntityManager.  Neither class takes a lock, so the reads *)
(* and writes of m_NextID and of the vectors' sizes interleave; a push_back *)
(* is the read of the size and the write of the element and the new size.  *)
(***************************************************************************)
InitThreads ==
    /\ ParkedECS
    /\ InitHist
    /\ IdleCCD
    /\ m_NextID = 0
    /\ m_EntityStates = <<>>
    /\ m_ActiveEntities = <<>>
    /\ m_FreeIDs = <<>>
    /\ thr = [t \in Threads |-> [pc |-> "create", id |-> 0, n |-> 0,
                                 left |-> EntitiesPerThread, created |-> <<>>]]
    /\ successCount = 0
    /\ aborted = FALSE
    /\ IdleUnits

\* The vector after a push_back of x that read the size n.
PushBackAt(v, n, x) ==
    IF n < Len(v) THEN [v EXCEPT ![n + 1] = x] ELSE Append(SubSeq(v, 1, n), x)

IsEntityValid(entity) ==
    entity < Len(m_EntityStates) /\ m_EntityStates[entity + 1]

\* CreateEntity, lines 15-25: the free-list branch, or the read of m_NextID.
CreateReadID(t) ==
    /\ ~aborted
    /\ thr[t].pc = "create"
    /\ IF m_FreeIDs # <<>>
       THEN LET id == m_FreeIDs[Len(m_FreeIDs)]
            IN  /\ m_FreeIDs' = SubSeq(m_FreeIDs, 1, Len(m_FreeIDs) - 1)
                /\ m_EntityStates' = [m_EntityStates EXCEPT ![id + 1] = TRUE]
                /\ thr' = [thr EXCEPT ![t].id = id, ![t].pc = "active_size"]
       ELSE /\ thr' = [thr EXCEPT ![t].id = m_NextID, ![t].pc = "next_write"]
            /\ UNCHANGED <<m_FreeIDs, m_EntityStates>>
    /\ UNCHANGED <<m_NextID, m_ActiveEntities, successCount, aborted,
                   ecsVars, histVars, ccdVars, unitVars>>

\* m_NextID++, the write.
CreateWriteNextID(t) ==
    /\ ~aborted
    /\ thr[t].pc = "next_write"
    /\ m_NextID' = thr[t].id + 1
    /\ thr' = [thr EXCEPT ![t].pc = "states_size"]
    /\ UNCHANGED <<m_EntityStates, m_ActiveEntities, m_FreeIDs, successCount, aborted,
                   ecsVars, histVars, ccdVars, unitVars>>

\* m_EntityStates.push_back(true)
StatesReadSize(t) ==
    /\ ~aborted
    /\ thr[t].pc = "states_size"
    /\ thr' = [thr EXCEPT ![t].n = Len(m_EntityStates), ![t].pc = "states_write"]
    /\ UNCHANGED <<emVars, successCount, aborted, ecsVars, histVars, ccdVars, unitVars>>

StatesWrite(t) ==
    /\ ~aborted
    /\ thr[t].pc = "states_write"
    /\ m_EntityStates' = PushBackAt(m_EntityStates, thr[t].n, TRUE)
    /\ thr' = [thr EXCEPT ![t].pc = "active_size"]
    /\ UNCHANGED <<m_NextID, m_ActiveEntities, m_FreeIDs, successCount, aborted,
                   ecsVars, histVars, ccdVars, unitVars>>

\* m_ActiveEntities.push_back(id); return id
ActiveReadSize(t) ==
    /\ ~aborted
    /\ thr[t].pc = "active_size"
    /\ thr' = [thr EXCEPT ![t].n = Len(m_ActiveEntities), ![t].pc = "active_write"]
    /\ UNCHANGED <<emVars, successCount, aborted, ecsVars, histVars, ccdVars, unitVars>>

ActiveWrite(t) ==
    /\ ~aborted
    /\ thr[t].pc = "active_write"
    /\ m_ActiveEntities' = PushBackAt(m_ActiveEntities, thr[t].n, thr[t].id)
    /\ thr' = [thr EXCEPT ![t].pc = "add", ![t].created = Append(@, thr[t].id)]
    /\ UNCHANGED <<m_NextID, m_EntityStates, m_FreeIDs, successCount, aborted,
                   ecsVars, histVars, ccdVars, unitVars>>

\* AddComponent<TransformComponent>, lines 68-71: the assert, which a build
\* with NDEBUG leaves out, and the insertion into the map.
AddComponentInsert(t) ==
    /\ ~aborted
    /\ thr[t].pc = "add"
    /\ \/ /\ ~IsEntityValid(thr[t].id)
          /\ aborted' = TRUE
          /\ UNCHANGED <<thr, hasComp>>
       \/ /\ hasComp' = [hasComp EXCEPT !["Transform"] = @ \cup {thr[t].id}]
          /\ thr' = [thr EXCEPT ![t].pc = "list_find"]
          /\ UNCHANGED aborted
    /\ UNCHANGED <<emVars, successCount, histVars, ccdVars, unitVars, appPc, m_Systems, sysIdx,
                   colPc, loopI, loopJ, pending, tick, transform, body, collider,
                   entityList>>

\* std::find over entityList, and the read of its size for the push_back.
ListFind(t) ==
    /\ ~aborted
    /\ thr[t].pc = "list_find"
    /\ LET list == entityList["Transform"]
           found == \E i \in 1..Len(list) : list[i] = thr[t].id
       IN  thr' = [thr EXCEPT ![t].n = Len(list),
                              ![t].pc = IF found THEN "has" ELSE "list_write"]
    /\ UNCHANGED <<emVars, successCount, aborted, ecsVars, histVars, ccdVars, unitVars>>

ListWrite(t) ==
    /\ ~aborted
    /\ thr[t].pc = "list_write"
    /\ entityList' = [entityList EXCEPT
                         !["Transform"] = PushBackAt(@, thr[t].n, thr[t].id)]
    /\ thr' = [thr EXCEPT ![t].pc = "has"]
    /\ UNCHANGED <<emVars, successCount, aborted, histVars, ccdVars, unitVars, appPc, m_Systems,
                   sysIdx, colPc, loopI, loopJ, pending, tick, transform, body,
                   collider, hasComp>>

\* if (HasComponent<TransformComponent>(entity)) successCount++; next round.
CountSuccess(t) ==
    /\ ~aborted
    /\ thr[t].pc = "has"
    /\ successCount' = IF HasComponent("Transform", thr[t].id)
                       THEN successCount + 1 ELSE successCount
    /\ thr' = [thr EXCEPT ![t].left = @ - 1,
                          ![t].pc = IF thr[t].left > 1 THEN "create" ELSE "done"]
    /\ UNCHANGED <<emVars, aborted, ecsVars, histVars, ccdVars, unitVars>>

NextThreads ==
    \/ \E t \in Threads : CreateReadID(t)
    \/ \E t \in Threads : CreateWriteNextID(t)
    \/ \E t \in Threads : StatesReadSize(t)
    \/ \E t \in Threads : StatesWrite(t)
    \/ \E t \in Threads : ActiveReadSize(t)
    \/ \E t \in Threads : ActiveWrite(t)
    \/ \E t \in Threads : AddComponentInsert(t)
    \/ \E t \in Threads : ListFind(t)
    \/ \E t \in Threads : ListWrite(t)
    \/ \E t \in Threads : CountSuccess(t)

SpecThreads == InitThreads /\ [][NextThreads]_vars

AllJoined == \A t \in Threads : thr[t].pc = "done"

CreatedIDs == UNION {{thr[t].created[i] : i \in 1..Len(thr[t].created)} : t \in Threads}

\* C8: the concurrent calls behave as serial ones: no call fails, and once
\* the threads are joined every CreateEntity has returned a different ID,
\* every created entity has its component and appears in the container's
\* list, and GetActiveEntityCount is the number of CreateEntity calls.
C8_ConcurrentCallsAsIfSerial ==
    /\ ~aborted
    /\ AllJoined =>
        /\ Cardinality(CreatedIDs) = ThreadCount * EntitiesPerThread
        /\ Len(m_ActiveEntities) = ThreadCount * EntitiesPerThread
        /\ successCount = ThreadCount * EntitiesPerThread
        /\ \A id \in CreatedIDs : HasComponent("Transform", id)
        /\ Len(GetEntitiesWithComponent("Transform")) = Cardinality(CreatedIDs)

(***************************************************************************)
(* CheckPolygonCollision on bounded arguments, degenerate polygons among   *)
(* them (C11, C12)                                                         *)
(***************************************************************************)
\* Every other variable stands still while a unit is exercised on its own.
ParkedRest == ParkedECS /\ InitHist /\ IdleCCD /\ ParkedManager

\* Polygons in pixels: none, one point, a segment, three equal points (every
\* edge of length zero), a square with a repeated vertex, a square, a ramp.
SinglePoint == <<<<16, 16>>>>
Segment == <<<<0, 0>>, <<32, 0>>>>
CollapsedTriangle == <<<<8, 8>>, <<8, 8>>, <<8, 8>>>>
SquareRepeatedVertex == <<<<0, 0>>, <<32, 0>>, <<32, 0>>, <<32, 32>>, <<0, 32>>>>
SATPolygons == {<<>>, SinglePoint, Segment, CollapsedTriangle, SquareRepeatedVertex,
                Square(32), Ramp}

\* Where the second polygon is placed, the first being at the origin: over
\* it, touching its side, touching its corner, apart from it.
SATPlacements == {<<0, 0>>, <<10, 10>>, <<-20, 5>>, <<32, 0>>, <<32, 32>>, <<100, 0>>}

SATArguments ==
    {[poly1 |-> p1, pos1 |-> <<0, 0>>, poly2 |-> p2, pos2 |-> q] :
        p1 \in SATPolygons, p2 \in SATPolygons, q \in SATPlacements}

InitSAT ==
    /\ satIn \in SATArguments
    /\ satOut = NoResult
    /\ IdleEntityCalls /\ IdleResolve /\ IdleSystems /\ IdleLoop
    /\ ParkedRest /\ IdleUtils

\* The call CheckPolygonCollision(poly1, pos1, poly2, pos2).
SATCall ==
    /\ satIn # NoResult
    /\ satOut = NoResult
    /\ satOut' = CheckPolygonCollision(satIn.poly1, VScale(satIn.pos1, PosScale),
                                       satIn.poly2, VScale(satIn.pos2, PosScale), PosScale)
    /\ UNCHANGED <<satIn, resIn, resOut, emLast, storeLast, smVars, loopVars,
                   ecsVars, histVars, ccdVars, thrVars,
                   utilVars>>

NextSAT == SATCall

SpecSAT == InitSAT /\ [][NextSAT]_vars

SATCollided == satOut # NoResult /\ satOut.collided

\* centroid of B minus centroid of A, times the two vertex counts.
CentroidOffset ==
    VSub(CalculatePolygonCenter(satIn.poly2, VScale(satIn.pos2, PosScale), PosScale,
                                Len(satIn.poly1)),
         CalculatePolygonCenter(satIn.poly1, VScale(satIn.pos1, PosScale), PosScale,
                                Len(satIn.poly2)))

\* C11: whenever the call returns collided, overlapAxis has length 1 (AxisDen
\* in the model's unit) and its dot product with the offset from the centroid
\* of the first polygon to that of the second is not negative.
C11_AxisUnitAndOriented ==
    SATCollided =>
        /\ DotProduct(satOut.overlapAxis, satOut.overlapAxis) = AxisDen * AxisDen
        /\ DotProduct(satOut.overlapAxis, CentroidOffset) >= 0

\* C12: the call returns collided = false whenever one of the polygons has
\* fewer than 2 points, wherever the two are placed.
C12_DegenerateNeverCollides ==
    (satOut # NoResult /\ (Len(satIn.poly1) < 2 \/ Len(satIn.poly2) < 2))
        => ~satOut.collided

(***************************************************************************)
(* ResolveCollision on bounded arguments, masses of 0 among them (C13)     *)
(***************************************************************************)
\* Masses, a dynamic body's 0 included; velocities in pixels per second.
ResolveMasses == {0, 1, 3}
ResolveVelocities == {<<0, 0>>, <<120, 0>>, <<-120, 60>>}

\* Two bodies 30 px apart along x, in the fields ResolveCollision reads.
ResolveBodies(pos) ==
    {[position |-> VScale(pos, PosScale), velocity |-> VScale(v, VelScale),
      mass |-> m, isStatic |-> st] :
        v \in ResolveVelocities, m \in ResolveMasses, st \in BOOLEAN}

\* A miss, and a hit of 2 px along x whose axis points from body1 to body2.
ResolveResults ==
    {NotCollided, CollisionResult(TRUE, <<AxisDen, 0>>, 2 * AxisDen * PosScale)}

ResolveArguments ==
    {[body1 |-> b1, body2 |-> b2, result |-> r] :
        b1 \in ResolveBodies(<<0, 0>>), b2 \in ResolveBodies(<<30, 0>>),
        r \in ResolveResults}

InitResolve ==
    /\ resIn \in ResolveArguments
    /\ resOut = NoResult
    /\ IdleEntityCalls /\ IdleSAT /\ IdleSystems /\ IdleLoop
    /\ ParkedRest /\ IdleUtils

\* The call ResolveCollision(body1, body2, result).
ResolveCall ==
    /\ resIn # NoResult
    /\ resOut = NoResult
    /\ resOut' = ResolveCollision(resIn.body1, resIn.body2, resIn.result)
    /\ UNCHANGED <<resIn, satIn, satOut, emLast, storeLast, smVars, loopVars,
                   ecsVars, histVars, ccdVars, thrVars,
                   utilVars>>

NextResolve == ResolveCall

SpecResolve == InitResolve /\ [][NextResolve]_vars

IsFinite(v) == v[1] # NaN /\ v[2] # NaN

\* C13: for every combination of static flags and masses >= 0 the call is a
\* no-op or leaves both bodies with finite position and velocity.
C13_ResolveStaysFinite ==
    resOut # NoResult =>
        \A i \in 1..2 : IsFinite(resOut[i].position) /\ IsFinite(resOut[i].velocity)

(***************************************************************************)
(* EntityManager called from one thread: any sequence of CreateEntity and  *)
(* DestroyEntity (C15 - C17).  emLast records the last call: the ID passed *)
(* or returned, whether it was valid before the call, whether the call     *)
(* changed the manager, and - kept apart from m_FreeIDs - the destroyed    *)
(* IDs not yet reused, oldest first, and the count of fresh IDs issued.    *)
(***************************************************************************)
\* Fresh IDs issued before CreateEntity is called only to reuse.
MaxEntities == 4

\* static_cast<EntityID>(-1), the largest EntityID; here the largest integer.
INVALID_ENTITY == 2147483647

\* The IDs passed to DestroyEntity: every ID that can be issued, one that
\* never is, and INVALID_ENTITY.
DestroyArguments == 0..MaxEntities \cup {INVALID_ENTITY}

Constructed ==
    [op |-> "construct", id |-> 0, wasValid |-> FALSE, changed |-> FALSE,
     waitingBefore |-> <<>>, waiting |-> <<>>, freshBefore |-> 0, fresh |-> 0]

InitEntities ==
    /\ m_NextID = 0
    /\ m_EntityStates = <<>>
    /\ m_ActiveEntities = <<>>
    /\ m_FreeIDs = <<>>
    /\ thr = [t \in Threads |-> IdleThread]
    /\ successCount = 0
    /\ aborted = FALSE
    /\ emLast = Constructed
    /\ storeLast = NoCall
    /\ IdleSAT /\ IdleResolve /\ IdleSystems /\ IdleLoop
    /\ ParkedECS /\ InitHist /\ IdleCCD /\ IdleUtils

\* m_FreeIDs.back()
FreeFront(free) == free[1]
FreeBack(free) == free[Len(free)]

\* The early return of DestroyEntity.
DestroyIgnoresOnlyUnknown(states, entity) == entity >= Len(states)
DestroyReturnsEarly(states, entity) == entity >= Len(states) \/ ~states[entity + 1]

\* v.erase(std::remove(v.begin(), v.end(), x), v.end())
RemoveNothing(v, x) == v
RemoveValue(v, x) == SelectSeq(v, LAMBDA y : y # x)

CreateEntity ==
    /\ m_FreeIDs # <<>> \/ m_NextID < MaxEntities
    /\ LET reuse == m_FreeIDs # <<>>
           id == IF reuse THEN FreeBack(m_FreeIDs) ELSE m_NextID
       IN  /\ m_FreeIDs' = IF reuse THEN SubSeq(m_FreeIDs, 1, Len(m_FreeIDs) - 1)
                           ELSE m_FreeIDs
           /\ m_EntityStates' = IF reuse THEN [m_EntityStates EXCEPT ![id + 1] = TRUE]
                                ELSE Append(m_EntityStates, TRUE)
           /\ m_NextID' = IF reuse THEN m_NextID ELSE m_NextID + 1
           /\ m_ActiveEntities' = Append(m_ActiveEntities, id)
           /\ emLast' = [op |-> "create", id |-> id, wasValid |-> IsEntityValid(id),
                         changed |-> TRUE,
                         waitingBefore |-> emLast.waiting,
                         waiting |-> RemoveValue(emLast.waiting, id),
                         freshBefore |-> emLast.fresh,
                         fresh |-> IF reuse THEN emLast.fresh ELSE emLast.fresh + 1]
    /\ UNCHANGED <<thr, successCount, aborted, storeLast, callVars, smVars, loopVars,
                   ecsVars, histVars, ccdVars,
                   utilVars>>

DestroyEntity(entity) ==
    /\ IF DestroyReturnsEarly(m_EntityStates, entity)
       THEN /\ UNCHANGED emVars
            /\ emLast' = [emLast EXCEPT !.op = "destroy", !.id = entity,
                                        !.wasValid = IsEntityValid(entity),
                                        !.changed = FALSE,
                                        !.waitingBefore = emLast.waiting,
                                        !.freshBefore = emLast.fresh]
       ELSE /\ m_EntityStates' = [m_EntityStates EXCEPT ![entity + 1] = FALSE]
            /\ m_ActiveEntities' = RemoveValue(m_ActiveEntities, entity)
            /\ m_FreeIDs' = Append(m_FreeIDs, entity)
            /\ UNCHANGED m_NextID
            /\ emLast' = [emLast EXCEPT !.op = "destroy", !.id = entity,
                                        !.wasValid = IsEntityValid(entity),
                                        !.changed = TRUE,
                                        !.waitingBefore = emLast.waiting,
                                        !.waiting = Append(emLast.waiting, entity),
                                        !.freshBefore = emLast.fresh]
    /\ UNCHANGED <<thr, successCount, aborted, storeLast, callVars, smVars, loopVars,
                   ecsVars, histVars, ccdVars,
                   utilVars>>

NextEntities ==
    \/ CreateEntity
    \/ \E entity \in DestroyArguments : DestroyEntity(entity)

SpecEntities == InitEntities /\ [][NextEntities]_vars

GetActiveEntityCount == Len(m_ActiveEntities)
GetActiveEntities == m_ActiveEntities

NoDuplicate(v) == \A i, j \in 1..Len(v) : v[i] = v[j] => i = j
ValidIDs == {id \in 0..MaxEntities : IsEntityValid(id)}

\* C15: CreateEntity never returns an ID that was valid when it was called,
\* and GetActiveEntities() never lists an ID twice.
C15_CreatedIDNotLive ==
    /\ emLast.op = "create" => ~emLast.wasValid
    /\ NoDuplicate(GetActiveEntities)

\* An ID destroyed earlier has been handed out again while another entity lives.
C15_Witness ==
    /\ emLast.op = "create"
    /\ emLast.waitingBefore # <<>>
    /\ GetActiveEntityCount >= 2

\* C16: GetActiveEntityCount() is the number of valid IDs, GetActiveEntities()
\* lists exactly the valid IDs, and a DestroyEntity of an ID that was not
\* valid (never created, already destroyed, INVALID_ENTITY) changed nothing.
C16_ActiveListIsValidSet ==
    /\ GetActiveEntityCount = Cardinality(ValidIDs)
    /\ {GetActiveEntities[i] : i \in 1..GetActiveEntityCount} = ValidIDs
    /\ ~IsEntityValid(INVALID_ENTITY)
    /\ (emLast.op = "destroy" /\ ~emLast.wasValid) => ~emLast.changed

\* DestroyEntity(INVALID_ENTITY) was called with entities live and destroyed.
C16_Witness ==
    /\ emLast.op = "destroy"
    /\ emLast.id = INVALID_ENTITY
    /\ m_FreeIDs # <<>>
    /\ GetActiveEntityCount >= 2

\* C17: CreateEntity returns the most recently destroyed ID still waiting to
\* be reused, and when none waits the next integer of 0, 1, 2, ...
C17_ReuseLastDestroyedFirst ==
    emLast.op = "create" =>
        IF emLast.waitingBefore # <<>>
        THEN emLast.id = emLast.waitingBefore[Len(emLast.waitingBefore)]
        ELSE emLast.id = emLast.freshBefore

\* Two destroyed IDs waited, the older one the larger, and one was reused.
C17_Witness ==
    /\ emLast.op = "create"
    /\ Len(emLast.waitingBefore) >= 2
    /\ emLast.waitingBefore[1] > emLast.waitingBefore[2]

(***************************************************************************)
(* ComponentStore called from one thread: any sequence of AddComponent<T>  *)
(* and RemoveComponent<T> (C18).  storeLast records the last call and      *)
(* whether the entity had the component before it.                         *)
(***************************************************************************)
\* Entities 0 .. StoreEntityCount - 1 have been created, the last destroyed.
StoreEntityCount == 3
StoreEntities == 0..(StoreEntityCount - 1)
StoreTypes == {"Transform", "Collider"}

InitStore ==
    /\ m_NextID = StoreEntityCount
    /\ m_EntityStates = [i \in 1..StoreEntityCount |-> i < StoreEntityCount]
    /\ m_ActiveEntities = [i \in 1..(StoreEntityCount - 1) |-> i - 1]
    /\ m_FreeIDs = <<StoreEntityCount - 1>>
    /\ thr = [t \in Threads |-> IdleThread]
    /\ successCount = 0
    /\ aborted = FALSE
    /\ emLast = NoCall
    /\ storeLast = NoCall
    /\ IdleSAT /\ IdleResolve /\ IdleSystems /\ IdleLoop
    /\ ParkedECS /\ InitHist /\ IdleCCD /\ IdleUtils

\* std::find(entityList.begin(), entityList.end(), entity) != entityList.end()
ListedNever(list, entity) == FALSE
ListedAlready(list, entity) == \E i \in 1..Len(list) : list[i] = entity

\* entityList.erase(it2), it2 pointing at the first element equal to entity.
EraseFirst(list, entity) ==
    IF ~ListedAlready(list, entity) THEN list
    ELSE LET at == CHOOSE i \in 1..Len(list) :
                       list[i] = entity /\ \A j \in 1..(i - 1) : list[j] # entity
         IN  SubSeq(list, 1, at - 1) \o SubSeq(list, at + 1, Len(list))

\* ComponentStore::AddComponent<T>(entity, component).  The assert ends a
\* debug build when the entity is not valid; a build with NDEBUG goes on.
AddComponent(type, entity) ==
    /\ ~aborted
    /\ \/ /\ ~IsEntityValid(entity)
          /\ aborted' = TRUE
          /\ UNCHANGED <<hasComp, entityList, storeLast>>
       \/ /\ hasComp' = [hasComp EXCEPT ![type] = @ \cup {entity}]
          /\ entityList' = [entityList EXCEPT ![type] =
                               IF ListedAlready(@, entity) THEN @ ELSE Append(@, entity)]
          /\ storeLast' = [op |-> "add", type |-> type, entity |-> entity,
                           had |-> HasComponent(type, entity)]
          /\ UNCHANGED aborted
    /\ UNCHANGED <<emVars, emLast, thr, successCount, callVars, smVars, loopVars,
                   appPc, m_Systems, sysIdx, colPc, loopI, loopJ, pending, tick,
                   transform, body, collider, histVars, ccdVars,
                   utilVars>>

\* ComponentStore::RemoveComponent<T>(entity), and the container's.
RemoveComponent(type, entity) ==
    /\ ~aborted
    /\ IF HasComponent(type, entity)
       THEN /\ hasComp' = [hasComp EXCEPT ![type] = @ \ {entity}]
            /\ entityList' = [entityList EXCEPT ![type] = EraseFirst(@, entity)]
       ELSE UNCHANGED <<hasComp, entityList>>
    /\ storeLast' = [op |-> "remove", type |-> type, entity |-> entity,
                     had |-> HasComponent(type, entity)]
    /\ UNCHANGED <<emVars, emLast, thr, successCount, aborted, callVars, smVars, loopVars,
                   appPc, m_Systems, sysIdx, colPc, loopI, loopJ, pending, tick,
                   transform, body, collider, histVars, ccdVars,
                   utilVars>>

NextStore ==
    \/ \E type \in StoreTypes, entity \in StoreEntities : AddComponent(type, entity)
    \/ \E type \in StoreTypes, entity \in StoreEntities : RemoveComponent(type, entity)

SpecStore == InitStore /\ [][NextStore]_vars

\* C18: GetEntitiesWithComponent<T>() lists every entity with HasComponent<T>
\* once, and no other entity.
C18_ListMatchesComponents ==
    \A type \in StoreTypes :
        /\ NoDuplicate(GetEntitiesWithComponent(type))
        /\ {GetEntitiesWithComponent(type)[i] :
               i \in 1..Len(GetEntitiesWithComponent(type))}
             = {entity \in StoreEntities : HasComponent(type, entity)}

\* T was added again to an entity that had it, another entity having T too,
\* while the other container had lost its entities again.
C18_Witness ==
    /\ storeLast.op = "add"
    /\ storeLast.had
    /\ Len(GetEntitiesWithComponent(storeLast.type)) >= 2
    /\ \E type \in StoreTypes : GetEntitiesWithComponent(type) = <<>>

(***************************************************************************)
(* A SystemManager from its construction to its destruction (C19).  A      *)
(* system is the number of its AddSystem call; sysCalls[s] lists the calls *)
(* system s has received.                                                  *)
(***************************************************************************)
MaxSystems == 3
MaxUpdates == 2
MaxShutdowns == 3
Systems == 1..MaxSystems

InitSystems ==
    /\ sysCalls = [sys \in Systems |-> <<>>]
    /\ smState = [alive |-> TRUE, added |-> 0, updates |-> 0, shutdowns |-> 0]
    /\ IdleEntityCalls /\ IdleSAT /\ IdleResolve /\ IdleLoop
    /\ ParkedRest /\ IdleUtils

\* The call is made on every system of m_Systems, in order.
CallEach(systems, call) ==
    [sys \in Systems |->
        IF \E i \in 1..Len(systems) : systems[i] = sys
        THEN Append(sysCalls[sys], call) ELSE sysCalls[sys]]

\* m_Systems.clear()
SystemsKept(systems) == systems
SystemsCleared(systems) == <<>>

\* SystemManager::AddSystem: Initialize, then push_back.
AddSystem ==
    /\ smState.alive
    /\ smState.added < MaxSystems
    /\ LET system == smState.added + 1
       IN  /\ sysCalls' = [sysCalls EXCEPT ![system] = Append(@, "Initialize")]
           /\ m_Systems' = Append(m_Systems, system)
    /\ smState' = [smState EXCEPT !.added = @ + 1]
    /\ UNCHANGED <<appPc, sysIdx, colPc, loopI, loopJ, pending, tick, transform, body,
                   collider, hasComp, entityList, histVars, ccdVars, thrVars,
                   emLast, storeLast, callVars, loopVars,
                   utilVars>>

\* SystemManager::Update
ManagerUpdate ==
    /\ smState.alive
    /\ smState.updates < MaxUpdates
    /\ sysCalls' = CallEach(m_Systems, "Update")
    /\ smState' = [smState EXCEPT !.updates = @ + 1]
    /\ UNCHANGED <<ecsVars, histVars, ccdVars, thrVars,
                   emLast, storeLast, callVars, loopVars,
                   utilVars>>

\* SystemManager::Shutdown
ManagerShutdown ==
    /\ smState.alive
    /\ smState.shutdowns < MaxShutdowns
    /\ sysCalls' = CallEach(m_Systems, "Shutdown")
    /\ m_Systems' = SystemsCleared(m_Systems)
    /\ smState' = [smState EXCEPT !.shutdowns = @ + 1]
    /\ UNCHANGED <<appPc, sysIdx, colPc, loopI, loopJ, pending, tick, transform, body,
                   collider, hasComp, entityList, histVars, ccdVars, thrVars,
                   emLast, storeLast, callVars, loopVars,
                   utilVars>>

\* SystemManager::~SystemManager: Shutdown(), then the members are destroyed.
ManagerDestroy ==
    /\ smState.alive
    /\ sysCalls' = CallEach(m_Systems, "Shutdown")
    /\ m_Systems' = SystemsCleared(m_Systems)
    /\ smState' = [smState EXCEPT !.alive = FALSE]
    /\ UNCHANGED <<appPc, sysIdx, colPc, loopI, loopJ, pending, tick, transform, body,
                   collider, hasComp, entityList, histVars, ccdVars, thrVars,
                   emLast, storeLast, callVars, loopVars,
                   utilVars>>

NextSystems ==
    \/ AddSystem
    \/ ManagerUpdate
    \/ ManagerShutdown
    \/ ManagerDestroy

SpecSystems == InitSystems /\ [][NextSystems]_vars

\* Initialize first and only first, Shutdown only last.
LifecycleSoFar(calls) ==
    \A i \in 1..Len(calls) :
        /\ calls[i] = "Initialize" <=> i = 1
        /\ calls[i] = "Shutdown" => i = Len(calls)

AddedSystems == {sys \in Systems : sysCalls[sys] # <<>>}

\* C19: the calls a system has received are Initialize, then Updates, then at
\* most one Shutdown with nothing after it; and once the manager is
\* destroyed every added system has received its Shutdown.
C19_SystemLifecycle ==
    \A sys \in AddedSystems :
        /\ LifecycleSoFar(sysCalls[sys])
        /\ ~smState.alive => sysCalls[sys][Len(sysCalls[sys])] = "Shutdown"

\* The manager is destroyed after two Shutdown calls; one system was updated
\* before it was shut down and another was shut down without an update.
C19_Witness ==
    /\ ~smState.alive
    /\ smState.shutdowns >= 2
    /\ \E sys \in AddedSystems : Len(sysCalls[sys]) >= 3
    /\ \E sys \in AddedSystems : sysCalls[sys] = <<"Initialize", "Shutdown">>

(***************************************************************************)
(* The game loop of Application::Run (C20).  Times are doubles in the      *)
(* program; here a time counts 1/2^TimeBits second.  1/60 is no binary     *)
(* fraction: the double FIXED_TIMESTEP lies below 1/60, and so does the    *)
(* quotient below, while MAX_FRAME_TIME = 0.25 is exact in both.           *)
(***************************************************************************)
TimeBits == 10
TimeDen == 2 ^ TimeBits

FIXED_TIMESTEP == TimeDen \div 60
MAX_FRAME_TIME == TimeDen \div 4

\* newTime - m_CurrentTime, the time the frame before took: nothing, one
\* unit, just under a timestep, a timestep, a few, the cap, twice the cap.
FrameTimes == {0, 1, FIXED_TIMESTEP - 1, FIXED_TIMESTEP, 3 * FIXED_TIMESTEP + 5,
               MAX_FRAME_TIME, 2 * MAX_FRAME_TIME}

\* OnStart has returned and m_Accumulator = 0.0.
InitLoop ==
    /\ m_Accumulator = 0
    /\ framePc = "poll"
    /\ frameUpdates = 0
    /\ frameLog = NoFrame
    /\ m_Running = TRUE
    /\ closedUpdates = 0
    /\ IdleEntityCalls /\ IdleSAT /\ IdleResolve /\ IdleSystems
    /\ ParkedRest /\ IdleUtils

\* if (frameTime > MAX_FRAME_TIME) frameTime = MAX_FRAME_TIME;
FrameTimeUncapped(frameTime) == frameTime
CapFrameTime(frameTime) == IF frameTime > MAX_FRAME_TIME THEN MAX_FRAME_TIME ELSE frameTime

\* The head of the outer loop, entered while m_Running: the frame time is
\* measured, capped and added.
BeginFrame(frameTime) ==
    /\ framePc = "poll"
    /\ m_Running
    /\ m_Accumulator' = m_Accumulator + CapFrameTime(frameTime)
    /\ frameUpdates' = 0
    /\ framePc' = "fixed"
    /\ frameLog' = [frameTime |-> frameTime, updates |-> 0, accumulator |-> m_Accumulator,
                    done |-> FALSE]
    /\ UNCHANGED <<m_Running, closedUpdates, ecsVars, histVars, ccdVars, thrVars,
                   emLast, storeLast, callVars, smVars,
                   utilVars>>

\* One pass of the inner loop: ProcessInput, which calls Close() when ESC is
\* down, OnFixedUpdate, in which the game may call Close(), the subtraction.
\* Close() sets m_Running to false.
FixedUpdate ==
    /\ framePc = "fixed"
    /\ m_Accumulator >= FIXED_TIMESTEP
    /\ \E escape \in BOOLEAN, gameCloses \in BOOLEAN :
         LET afterInput == m_Running /\ ~escape
         IN  /\ closedUpdates' = closedUpdates + IF afterInput THEN 0 ELSE 1
             /\ m_Running' = (afterInput /\ ~gameCloses)
    /\ m_Accumulator' = m_Accumulator - FIXED_TIMESTEP
    /\ frameUpdates' = frameUpdates + 1
    /\ UNCHANGED <<framePc, frameLog, ecsVars, histVars, ccdVars, thrVars,
                   emLast, storeLast, callVars, smVars,
                   utilVars>>

\* The inner loop has ended: OnInterpolateAndRender, swap, poll.
RenderFrame ==
    /\ framePc = "fixed"
    /\ m_Accumulator < FIXED_TIMESTEP
    /\ framePc' = "poll"
    /\ frameLog' = [frameLog EXCEPT !.updates = frameUpdates,
                                    !.accumulator = m_Accumulator, !.done = TRUE]
    /\ UNCHANGED <<m_Accumulator, frameUpdates, m_Running, closedUpdates,
                   ecsVars, histVars, ccdVars, thrVars,
                   emLast, storeLast, callVars, smVars,
                   utilVars>>

\* The outer loop's condition fails: Run returns.
RunReturns ==
    /\ framePc = "poll"
    /\ ~m_Running
    /\ framePc' = "ended"
    /\ UNCHANGED <<m_Accumulator, frameUpdates, frameLog, m_Running, closedUpdates,
                   ecsVars, histVars, ccdVars, thrVars,
                   emLast, storeLast, callVars, smVars, utilVars>>

NextLoop ==
    \/ \E frameTime \in FrameTimes : BeginFrame(frameTime)
    \/ FixedUpdate
    \/ RenderFrame
    \/ RunReturns

SpecLoop == InitLoop /\ [][NextLoop]_vars

\* A frame has been rendered.
FrameDone == frameLog # NoFrame /\ frameLog.done

\* MAX_FRAME_TIME / FIXED_TIMESTEP in whole updates: 15.
WholeStepsInCap == MAX_FRAME_TIME \div FIXED_TIMESTEP

\* C20 as stated: a frame runs at most 15 fixed updates, and no backlog of a
\* timestep or more is left in the accumulator when the frame is rendered.
C20_AtMostFifteenUpdates ==
    /\ frameUpdates <= WholeStepsInCap
    /\ FrameDone => frameLog.accumulator < FIXED_TIMESTEP

\* C20, amended: a frame runs at most 16 fixed updates (the updates the cap
\* holds and one for what the frame before left in the accumulator), and no
\* backlog of a timestep or more is left when the frame is rendered.
C20_AtMostSixteenUpdates ==
    /\ frameUpdates <= WholeStepsInCap + 1
    /\ FrameDone => frameLog.accumulator < FIXED_TIMESTEP

\* A frame that took longer than the cap has run one update more than the
\* cap holds.
C20_Witness ==
    /\ FrameDone
    /\ frameLog.frameTime > MAX_FRAME_TIME
    /\ frameLog.updates = WholeStepsInCap + 1

\* C30: once Close() has been called no fixed update is executed: OnFixedUpdate
\* is not called again, in this frame's inner loop or in a later frame.
C30_NoUpdateAfterClose == closedUpdates = 0

(***************************************************************************)
(* GravityPhysics::UpdateBody called on its own (C21 - C23): one call on a *)
(* body with deltaTime = steps/60 s.  unitOut keeps, beside the body after *)
(* the call, the velocity the first sub-step had reached before its        *)
(* grounded clamp.                                                          *)
(***************************************************************************)
UpdateVelocities == {<<0, 0>>, <<200, 200>>, <<-50, 0>>}
UpdateAccelerations == {<<0, 0>>, <<600, 0>>, <<0, -300>>}
UpdateDrags == {0, 1}
UpdateMaxSpeeds == {100, 500}
UpdateSteps == 0..2

\* Physics::Body with the test fixture's mass and friction, at the origin.
UpdateBodies ==
    {[position |-> <<0, 0>>, velocity |-> VScale(v, VelScale), acceleration |-> a,
      mass |-> 1, friction |-> 1, drag |-> d, maxSpeed |-> ms, isStatic |-> FALSE] :
        v \in UpdateVelocities, a \in UpdateAccelerations, d \in UpdateDrags,
        ms \in UpdateMaxSpeeds}

UpdateArguments ==
    {[fn |-> "UpdateBody", body |-> b, steps |-> n, isGrounded |-> g] :
        b \in UpdateBodies, n \in UpdateSteps, g \in BOOLEAN}

InitUpdate ==
    /\ unitIn \in UpdateArguments
    /\ unitOut = NoResult
    /\ IdleInput /\ behaviorLoop = NoLoop
    /\ IdleEntityCalls /\ IdleSAT /\ IdleResolve /\ IdleSystems /\ IdleLoop
    /\ ParkedRest

\* The call UpdateBody(body, deltaTime, isGrounded).
UpdateCall ==
    /\ unitIn # NoCall
    /\ unitOut = NoResult
    /\ unitOut' = [body |-> UpdateBody(unitIn.body, unitIn.steps, unitIn.isGrounded),
                   accelerated |-> IF unitIn.steps > 0 THEN AccelerateBody(unitIn.body)
                                   ELSE unitIn.body.velocity]
    /\ UNCHANGED <<unitIn, inputVars, behaviorLoop, emLast, storeLast, callVars, smVars,
                   loopVars, ecsVars, histVars, ccdVars, thrVars>>

NextUpdate == UpdateCall

SpecUpdate == InitUpdate /\ [][NextUpdate]_vars

UpdateReturned == unitIn # NoCall /\ unitOut # NoResult

\* C21: in a sub-step of 1/60 s the body's acceleration a and gravity are each
\* added to the velocity once: before the grounded clamp, friction and drag the
\* velocity has changed by a + (0, 980), times the step.
C21_AccelerationIntegratedOnce ==
    UpdateReturned /\ unitIn.steps > 0 =>
        unitOut.accelerated =
            VAdd(unitIn.body.velocity,
                 VAdd(unitIn.body.acceleration, <<0, Gravity>>))

\* |a - b| <= 1e-3, or 1e-3 of |b|, for a and b in the unit 1/scale.
Near(a, b, scale) == Abs(a - b) * 1000 <= Max2(scale, Abs(b))

\* A body at rest, in the air, with no acceleration and no drag, updated
\* by 1/60 s.
FreeFallCall ==
    /\ UpdateReturned
    /\ unitIn.steps = 1
    /\ ~unitIn.isGrounded
    /\ unitIn.body.velocity = <<0, 0>>
    /\ unitIn.body.acceleration = <<0, 0>>
    /\ unitIn.body.drag = 0

\* C22: after a free fall of dt = 1/60 s from rest, velocity.y is 980 dt and
\* position.y is 980 dt^2 / 2, within 1e-3.  Doubled, the position compares
\* with 980 in the unit 1/(2 * 3600) pixel.
C22_FreeFallKinematics ==
    FreeFallCall =>
        /\ Near(unitOut.body.velocity[2], Gravity, VelScale)
        /\ Near(2 * unitOut.body.position[2], Gravity, 2 * PosScale)

\* C23: after UpdateBody with deltaTime > 0 the length of the velocity is at
\* most maxSpeed.
C23_SpeedAtMostMaxSpeed ==
    UpdateReturned /\ unitIn.steps > 0 =>
        LET v == unitOut.body.velocity
            maxVel == unitOut.body.maxSpeed * VelScale
        IN  v[1] * v[1] + v[2] * v[2] <= maxVel * maxVel

(***************************************************************************)
(* CollisionPhysics::CheckAABBCollision called on its own (C24): two boxes  *)
(* given by their top-left corner and their size, in whole pixels.          *)
(***************************************************************************)
BoxCorners1 == {<<0, 0>>, <<10, 20>>}
BoxCorners2 ==
    {<<32, 0>>, <<31, 0>>, <<33, 0>>, <<-32, 0>>, <<0, 32>>, <<0, -32>>, <<16, 16>>,
     <<32, 32>>, <<42, 20>>, <<10, 52>>, <<100, 100>>, <<0, 0>>, <<32, 40>>}
BoxSizes == {<<32, 32>>, <<16, 64>>}

AABBArguments ==
    {[fn |-> "CheckAABBCollision", pos1 |-> p1, size1 |-> s1, pos2 |-> p2, size2 |-> s2] :
        p1 \in BoxCorners1, s1 \in BoxSizes, p2 \in BoxCorners2, s2 \in BoxSizes}

InitAABB ==
    /\ unitIn \in AABBArguments
    /\ unitOut = NoResult
    /\ IdleInput /\ behaviorLoop = NoLoop
    /\ IdleEntityCalls /\ IdleSAT /\ IdleResolve /\ IdleSystems /\ IdleLoop
    /\ ParkedRest

\* The call CheckAABBCollision(pos1, size1, pos2, size2).
AABBCall ==
    /\ unitIn # NoCall
    /\ unitOut = NoResult
    /\ unitOut' = [collision |-> CheckAABBCollision(unitIn.pos1, unitIn.size1,
                                                    unitIn.pos2, unitIn.size2)]
    /\ UNCHANGED <<unitIn, inputVars, behaviorLoop, emLast, storeLast, callVars, smVars,
                   loopVars, ecsVars, histVars, ccdVars, thrVars>>

NextAABB == AABBCall

SpecAABB == InitAABB /\ [][NextAABB]_vars

\* On the axis k the max coordinate of one box is the min coordinate of the
\* other, and on the other axis the two ranges overlap.
SharesEdgeOn(in, k) ==
    LET o == 3 - k
    IN  /\ \/ in.pos1[k] + in.size1[k] = in.pos2[k]
           \/ in.pos2[k] + in.size2[k] = in.pos1[k]
        /\ in.pos1[o] < in.pos2[o] + in.size2[o]
        /\ in.pos2[o] < in.pos1[o] + in.size1[o]

\* C24: CheckAABBCollision reports a collision for two boxes that exactly
\* share an edge.
C24_EdgeTouchingCollides ==
    /\ unitIn # NoCall
    /\ unitOut # NoResult
    /\ \E k \in 1..2 : SharesEdgeOn(unitIn, k)
    => unitOut.collision

(***************************************************************************)
(* Utils::InputManager (C25): Init with a window or with nullptr, Update    *)
(* reading any key and button states from the window, and the queries.     *)
(* Keys and Buttons stand for the codes below GLFW_KEY_LAST and             *)
(* GLFW_MOUSE_BUTTON_LAST.                                                   *)
(***************************************************************************)
InitInput ==
    /\ IdleInput
    /\ IdleFn /\ behaviorLoop = NoLoop
    /\ IdleEntityCalls /\ IdleSAT /\ IdleResolve /\ IdleSystems /\ IdleLoop
    /\ ParkedRest

IsKeyPressed(key) == IF ~s_Window THEN FALSE ELSE s_CurrentKeys[key] /\ ~s_PreviousKeys[key]
IsKeyDown(key) == IF ~s_Window THEN FALSE ELSE s_CurrentKeys[key]
IsKeyUp(key) == IF ~s_Window THEN FALSE ELSE ~s_CurrentKeys[key]
IsMousePressed(button) ==
    IF ~s_Window THEN FALSE
    ELSE s_CurrentMouseButtons[button] /\ ~s_PreviousMouseButtons[button]
IsMouseDown(button) == IF ~s_Window THEN FALSE ELSE s_CurrentMouseButtons[button]
IsMouseUp(button) == IF ~s_Window THEN FALSE ELSE ~s_CurrentMouseButtons[button]

\* InputManager::Init(window)
InputInit(window) ==
    /\ s_Window' = window
    /\ UNCHANGED <<s_CurrentKeys, s_PreviousKeys, s_CurrentMouseButtons,
                   s_PreviousMouseButtons, fnVars, behaviorLoop, emLast, storeLast,
                   callVars, smVars, loopVars, ecsVars, histVars, ccdVars, thrVars>>

\* InputManager::Update(): nothing without a window; otherwise the current
\* tables become the previous ones and the window's states the current ones.
InputUpdate ==
    /\ IF ~s_Window
       THEN UNCHANGED <<s_CurrentKeys, s_PreviousKeys, s_CurrentMouseButtons,
                        s_PreviousMouseButtons>>
       ELSE /\ s_PreviousKeys' = s_CurrentKeys
            /\ s_PreviousMouseButtons' = s_CurrentMouseButtons
            /\ s_CurrentKeys' \in [Keys -> BOOLEAN]
            /\ s_CurrentMouseButtons' \in [Buttons -> BOOLEAN]
    /\ UNCHANGED <<s_Window, fnVars, behaviorLoop, emLast, storeLast,
                   callVars, smVars, loopVars, ecsVars, histVars, ccdVars, thrVars>>

\* The three queries on a key, and the three on a mouse button.
KeyQuery(key) ==
    /\ unitIn' = [fn |-> "key", code |-> key]
    /\ unitOut' = [pressed |-> IsKeyPressed(key), down |-> IsKeyDown(key),
                   up |-> IsKeyUp(key)]
    /\ UNCHANGED <<inputVars, behaviorLoop, emLast, storeLast,
                   callVars, smVars, loopVars, ecsVars, histVars, ccdVars, thrVars>>

MouseQuery(button) ==
    /\ unitIn' = [fn |-> "mouse", code |-> button]
    /\ unitOut' = [pressed |-> IsMousePressed(button), down |-> IsMouseDown(button),
                   up |-> IsMouseUp(button)]
    /\ UNCHANGED <<inputVars, behaviorLoop, emLast, storeLast,
                   callVars, smVars, loopVars, ecsVars, histVars, ccdVars, thrVars>>

NextInput ==
    \/ \E window \in BOOLEAN : InputInit(window)
    \/ InputUpdate
    \/ \E key \in Keys : KeyQuery(key)
    \/ \E button \in Buttons : MouseQuery(button)

SpecInput == InitInput /\ [][NextInput]_vars

\* C25: in every state, with or without a window, a key or button is up
\* exactly when it is not down; without a window it is up, not down and not
\* pressed.
C25_UpIsNotDown ==
    unitOut # NoResult =>
        /\ unitOut.up = ~unitOut.down
        /\ ~s_Window => unitOut.up /\ ~unitOut.down /\ ~unitOut.pressed

(***************************************************************************)
(* An EntityManager and the ComponentStore built on it (C28): entities are  *)
(* created and destroyed while components are added and removed.            *)
(***************************************************************************)
\* Fresh IDs issued before CreateEntity is called only to reuse.
RecycleEntityCount == 2
RecycleIDs == 0..(RecycleEntityCount - 1)

InitRecycle ==
    /\ m_NextID = 0
    /\ m_EntityStates = <<>>
    /\ m_ActiveEntities = <<>>
    /\ m_FreeIDs = <<>>
    /\ thr = [t \in Threads |-> IdleThread]
    /\ successCount = 0
    /\ aborted = FALSE
    /\ emLast = Constructed
    /\ storeLast = NoCall
    /\ IdleSAT /\ IdleResolve /\ IdleSystems /\ IdleLoop
    /\ ParkedECS /\ InitHist /\ IdleCCD /\ IdleUtils

\* ComponentStore::RemoveAllComponents(entity): RemoveComponent(entity) on
\* every container.
RemoveAllComponents(entity) ==
    /\ ~aborted
    /\ hasComp' = [type \in CompTypes |-> hasComp[type] \ {entity}]
    /\ entityList' = [type \in CompTypes |->
                         IF HasComponent(type, entity)
                         THEN EraseFirst(entityList[type], entity)
                         ELSE entityList[type]]
    /\ storeLast' = [op |-> "removeAll", type |-> "all", entity |-> entity,
                     had |-> \E type \in CompTypes : HasComponent(type, entity)]
    /\ UNCHANGED <<emVars, emLast, thr, successCount, aborted, callVars, smVars, loopVars,
                   appPc, m_Systems, sysIdx, colPc, loopI, loopJ, pending, tick,
                   transform, body, collider, histVars, ccdVars,
                   utilVars>>

\* CreateEntity, while fewer than RecycleEntityCount fresh IDs were issued
\* or an ID waits for reuse.
CreateRecycling ==
    /\ CreateEntity
    /\ m_NextID' <= RecycleEntityCount

NextRecycle ==
    \/ CreateRecycling
    \/ \E entity \in RecycleIDs : DestroyEntity(entity)
    \/ \E type \in StoreTypes, entity \in RecycleIDs : AddComponent(type, entity)
    \/ \E type \in StoreTypes, entity \in RecycleIDs : RemoveComponent(type, entity)
    \/ \E entity \in RecycleIDs : RemoveAllComponents(entity)

SpecRecycle == InitRecycle /\ [][NextRecycle]_vars

\* C28: when DestroyEntity(e) has destroyed e, no component is left for e, and
\* when CreateEntity returns e, e has no component of any type.
C28_DestroyedEntityLosesComponents ==
    [][\A e \in RecycleIDs :
          IsEntityValid(e) # IsEntityValid(e)' =>
              \A type \in CompTypes : e \notin hasComp'[type]]_vars

(***************************************************************************)
(* InputSystem::Update walking the entities with a BehaviorComponent (C29). *)
(* The range-for takes begin() and end() of the container's entityList      *)
(* once; each behaviour's Update callback may add or remove a               *)
(* BehaviorComponent.  behaviorLoop holds the iterator as an index into the *)
(* list, the end taken at the start, the entities that held the component   *)
(* then, the entities visited, and whether the list's storage has moved.    *)
(* Reading through an iterator the list no longer covers is undefined: it   *)
(* yields any entity, or ends the process.  InputManager has no window      *)
(* here, so its Update returns at once.                                      *)
(***************************************************************************)
\* Every order in which the entities of a set can have been added.
ListsOf(set) ==
    {l \in [1..Cardinality(set) -> set] : \A i, j \in 1..Cardinality(set) :
                                             l[i] = l[j] => i = j}

InitBehaviors ==
    /\ m_NextID = Cardinality(Entities)
    /\ m_EntityStates = [i \in 1..Cardinality(Entities) |-> TRUE]
    /\ m_ActiveEntities = [i \in 1..Cardinality(Entities) |-> i - 1]
    /\ m_FreeIDs = <<>>
    /\ thr = [t \in Threads |-> IdleThread]
    /\ successCount = 0
    /\ aborted = FALSE
    /\ appPc = "off"
    /\ m_Systems = <<>>
    /\ sysIdx = 0
    /\ colPc = "reset"
    /\ loopI = 0
    /\ loopJ = 0
    /\ pending = NoPair
    /\ tick = 0
    /\ transform = [e \in Entities |-> <<0, 0>>]
    /\ body = [e \in Entities |-> PhysicsBodyComponent(1, FALSE)]
    /\ collider = [e \in Entities |-> <<>>]
    /\ \E holders \in SUBSET Entities :
         /\ hasComp = [t \in CompTypes |-> IF t = "Behavior" THEN holders ELSE {}]
         /\ \E list \in ListsOf(holders) :
              entityList = [t \in CompTypes |-> IF t = "Behavior" THEN list ELSE <<>>]
    /\ behaviorLoop = NoLoop
    /\ IdleFn /\ IdleInput
    /\ IdleEntityCalls /\ IdleSAT /\ IdleResolve /\ IdleSystems /\ IdleLoop
    /\ InitHist /\ IdleCCD

\* What a behaviour's Update callback does to the store.
Callbacks ==
    {[op |-> "none", entity |-> 0]}
        \cup {[op |-> o, entity |-> e] : o \in {"add", "remove"}, e \in Entities}

\* const auto& behaviorEntities = GetEntitiesWithComponent<BehaviorComponent>();
\* the range-for takes its begin() and end().
BehaviorLoopBegin ==
    /\ behaviorLoop.pc = "off"
    /\ behaviorLoop' = [pc |-> "loop", pos |-> 1, end |-> Len(entityList["Behavior"]) + 1,
                        start |-> hasComp["Behavior"], visited |-> <<>>,
                        moved |-> FALSE, callback |-> [op |-> "none", entity |-> 0]]
    /\ UNCHANGED <<fnVars, inputVars, emLast, storeLast, callVars, smVars, loopVars,
                   ecsVars, histVars, ccdVars, thrVars>>

\* The entities *it can yield: the element, while the list covers the
\* iterator and its storage has not moved; any entity otherwise.
IteratorValid ==
    ~behaviorLoop.moved /\ behaviorLoop.pos <= Len(entityList["Behavior"])

Dereferenced ==
    IF IteratorValid THEN {entityList["Behavior"][behaviorLoop.pos]} ELSE Entities

\* One pass of the loop body: GetComponent<BehaviorComponent>(entity), whose
\* assert or at() ends the walk when the component is gone, then the
\* behaviour's Update, then ++it.  A push_back may move the list's storage.
BehaviorVisit ==
    /\ behaviorLoop.pc = "loop"
    /\ behaviorLoop.pos # behaviorLoop.end
    /\ \E entity \in Dereferenced :
         IF ~HasComponent("Behavior", entity)
         THEN /\ behaviorLoop' = [behaviorLoop EXCEPT !.pc = "fault"]
              /\ UNCHANGED <<hasComp, entityList>>
         ELSE \E cb \in Callbacks, grows \in BOOLEAN :
                LET list == entityList["Behavior"]
                    pushes == cb.op = "add" /\ ~ListedAlready(list, cb.entity)
                IN  /\ grows => pushes
                    /\ hasComp' = [hasComp EXCEPT !["Behavior"] =
                                      IF cb.op = "add" THEN @ \cup {cb.entity}
                                      ELSE IF cb.op = "remove" THEN @ \ {cb.entity}
                                      ELSE @]
                    /\ entityList' = [entityList EXCEPT !["Behavior"] =
                                         IF pushes THEN Append(@, cb.entity)
                                         ELSE IF cb.op = "remove"
                                                 /\ HasComponent("Behavior", cb.entity)
                                         THEN EraseFirst(@, cb.entity)
                                         ELSE @]
                    /\ behaviorLoop' = [behaviorLoop EXCEPT
                                           !.visited = Append(@, entity),
                                           !.pos = @ + 1,
                                           !.moved = @ \/ grows,
                                           !.callback = cb]
    /\ UNCHANGED <<fnVars, inputVars, emLast, storeLast, callVars, smVars, loopVars,
                   appPc, m_Systems, sysIdx, colPc, loopI, loopJ, pending, tick,
                   transform, body, collider, histVars, ccdVars, thrVars>>

\* it == end: Update returns.
BehaviorLoopEnd ==
    /\ behaviorLoop.pc = "loop"
    /\ behaviorLoop.pos = behaviorLoop.end
    /\ behaviorLoop' = [behaviorLoop EXCEPT !.pc = "done"]
    /\ UNCHANGED <<fnVars, inputVars, emLast, storeLast, callVars, smVars, loopVars,
                   ecsVars, histVars, ccdVars, thrVars>>

NextBehaviors == BehaviorLoopBegin \/ BehaviorVisit \/ BehaviorLoopEnd

SpecBehaviors == InitBehaviors /\ [][NextBehaviors]_vars

Visits(e) ==
    Cardinality({i \in 1..Len(behaviorLoop.visited) : behaviorLoop.visited[i] = e})

\* C29: when callbacks add or remove behaviours during the walk, no removed
\* component is accessed, and every entity that held a behaviour at the start
\* and still holds it at the end was visited exactly once.
C29_WalkSurvivesCallbacks ==
    /\ behaviorLoop.pc # "fault"
    /\ behaviorLoop.pc = "done" =>
           \A e \in behaviorLoop.start \cap hasComp["Behavior"] : Visits(e) = 1

====
